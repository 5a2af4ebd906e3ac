---------------------------- MODULE CacheProofs ----------------------------
(***************************************************************************)
(* Theorems about CacheCoherence, for any number of clients and writes: a     *)
(* cached result that a lookup can reach is exact, and every answer contains   *)
(* the writes completed before the query.                                    *)
(***************************************************************************)
EXTENDS CacheCoherence, TLAPS

-----------------------------------------------------------------------------
(* The inductive invariant.                                                 *)

\* A counter vouches for the last complete change of its store.
CleanInv ==
  \A s \in Stores : /\ clean[s] <= ver[s]
                    /\ s \notin dirty => clean[s] = ver[s]

\* The step t makes the keys computed from the store s before it unreachable.
Retires(t, s) == \/ t = "bump_data"
                 \/ s = "vec" /\ t = "bump_vec"
                 \/ s = "meta" /\ t = "bump_meta"

\* The step t changes the store s and leaves its counter behind.
Dirties(t, s) == t = "swap" \/ (s \in {"vec", "meta"} /\ t = s)

CacheSteps == {"invalidate", "clear"}

\* Every change is followed, in the same handler, by the bump that retires the
\* old keys; the cache is touched last; only a load swaps.
ScriptInv ==
  /\ \A s \in dirty : gate = "writer" /\ \E i \in 1..Len(todo) : Retires(todo[i], s)
  /\ \A s \in Stores : \A i \in 1..Len(todo) :
       Dirties(todo[i], s) => \E j \in 1..Len(todo) : j > i /\ Retires(todo[j], s)
  /\ \A i \in 1..Len(todo) : \A j \in 1..Len(todo) :
       i < j /\ todo[i] \in CacheSteps => todo[j] \in CacheSteps
  /\ \A i \in 1..Len(todo) : todo[i] \in {"swap", "bump_data"} => loading = "publishing"

\* An entry keyed by the present dataset is not ahead of a counter, and if it is
\* level with it, holds the version the counter vouches for.  A load replaces the
\* co-occurrence counter by an unrelated one before it bumps the dataset's.
EntryInv ==
  \A e \in entries :
    /\ e.key.gens["data"] <= gen["data"]
    /\ e.key.gens["data"] = gen["data"] =>
         \A s \in ReadsOf(e.key.req) : (s # "co" \/ "co" \notin dirty) =>
           /\ e.key.gens[s] <= gen[s]
           /\ e.key.gens[s] = gen[s] => e.seen[s] = {clean[s]}

\* The query has captured the counter d.
Captured(q, d) ==
  /\ q.pc \in {"capture", "search", "insert"}
  /\ d \in CountersOf(q.req)
  /\ \A i \in 1..Len(q.left) : q.left[i] # d

\* What was seen is not older than what had to be seen.
SeenInv(q) ==
  q.pc # "idle" =>
    /\ \A s \in Stores : q.floor[s] <= clean[s]
    /\ \A s \in ReadsOf(q.req) : \A v \in q.seen[s] : v >= q.floor[s]

CaptureInv(q) ==
  /\ \A d \in Counters : Captured(q, d) => q.cap[d] <= gen[d]
  /\ Captured(q, "data") => q.cap["data"] = gen["data"]

\* As long as its counter stands, a store read after the capture was read in the
\* version the counter vouches for, or in the one that a handler is making.
ReadInv(q) ==
  /\ q.pc = "capture" => q.seen = NothingSeen
  /\ q.pc \in {"search", "insert"} =>
       /\ q.left = <<>>
       /\ \A s \in ReadsOf(q.req) :
            q.cap[s] = gen[s] => \A v \in q.seen[s] : v = clean[s] \/ s \in dirty
  /\ q.pc = "insert" =>
       /\ \A d \in CountersOf(q.req) : q.cap[d] = gen[d]
       /\ \A s \in ReadsOf(q.req) : q.seen[s] # {}

\* An entry that the query may come to hit is new enough for it.
HitInv(q) ==
  \A s \in ReadsOf(q.req) : Captured(q, s) =>
    \A e \in entries :
      e.key.req = q.req /\ e.key.gens[s] = q.cap[s] /\ e.key.gens["data"] = gen["data"]
        => \A v \in e.seen[s] : v >= q.floor[s]

QueryInv(q) == SeenInv(q) /\ CaptureInv(q) /\ ReadInv(q) /\ HitInv(q)

IInv ==
  /\ TypeOK /\ CleanInv /\ ScriptInv /\ EntryInv
  /\ \A c \in Clients : QueryInv(query[c])

-----------------------------------------------------------------------------
(* Facts about the definitions.                                             *)

\* The stores and counters a request involves.
LEMMA RequestFacts ==
  ASSUME NEW r \in Kinds
  PROVE  /\ ReadsOf(r) \subseteq Stores
         /\ ReadsOf(r) \subseteq CountersOf(r)
         /\ CountersOf(r) \subseteq Counters
         /\ "data" \in CountersOf(r)
         /\ CaptureOrder(r) \in Seq(Counters)
         /\ \A d \in CountersOf(r) : \E i \in 1..Len(CaptureOrder(r)) : CaptureOrder(r)[i] = d
<1>1. /\ ReadsOf(r) \subseteq Stores /\ ReadsOf(r) \subseteq CountersOf(r)
      /\ CountersOf(r) \subseteq Counters
      /\ "data" \in CountersOf(r)
  BY DEF ReadsOf, CountersOf, Kinds, Stores, Counters
<1>2. CaptureOrder(r) \in Seq(Counters)
  <2>1. "co" \in Counters /\ "vec" \in Counters /\ "meta" \in Counters /\ "data" \in Counters
    BY DEF Counters, Stores
  <2>2. <<"vec", "meta", "data">> \in Seq(Counters)
    BY <2>1
  <2>3. <<"co", "vec", "meta", "data">> \in Seq(Counters)
    BY <2>1
  <2> QED BY <2>2, <2>3 DEF CaptureOrder
<1>3. \A d \in CountersOf(r) : \E i \in 1..Len(CaptureOrder(r)) : CaptureOrder(r)[i] = d
  <2>1. CASE r = "simv"
    <3> DEFINE o == <<"vec", "meta", "data">>
    <3>1. CaptureOrder(r) = o /\ Len(o) = 3 /\ o[1] = "vec" /\ o[2] = "meta" /\ o[3] = "data"
      BY <2>1 DEF CaptureOrder
    <3>2. CountersOf(r) = {"vec", "meta", "data"}
      BY <2>1 DEF CountersOf, Counters, Stores
    <3> QED BY <3>1, <3>2
  <2>2. CASE r # "simv"
    <3> DEFINE o == <<"co", "vec", "meta", "data">>
    <3>1. /\ CaptureOrder(r) = o /\ Len(o) = 4
          /\ o[1] = "co" /\ o[2] = "vec" /\ o[3] = "meta" /\ o[4] = "data"
      BY <2>2 DEF CaptureOrder
    <3>2. CountersOf(r) = {"co", "vec", "meta", "data"}
      BY <2>2 DEF CountersOf, Counters, Stores
    <3> QED BY <3>1, <3>2
  <2> QED BY <2>1, <2>2
<1> QED BY <1>1, <1>2, <1>3

\* A store without a pending bump is clean outside a handler.
LEMMA GateCleans ==
  ASSUME IInv, gate # "writer"
  PROVE  dirty = {}
BY DEF IInv, ScriptInv

\* The co-occurrence counter is unrelated only while a load publishes.
LEMMA CoDirtyLoads ==
  ASSUME IInv, "co" \in dirty
  PROVE  loading = "publishing"
BY DEF IInv, ScriptInv, Retires

\* The inductive invariant gives the properties.
LEMMA IInvImplies ==
  ASSUME IInv
  PROVE  TypeOK /\ CurrentEntriesExact /\ FreshAnswers
<1>1. TypeOK
  BY DEF IInv
<1>2. CurrentEntriesExact
  <2> SUFFICES ASSUME NEW e \in entries, \A d \in CountersOf(e.key.req) : e.key.gens[d] = gen[d],
                      NEW s \in ReadsOf(e.key.req), s \notin dirty
               PROVE  e.seen[s] = {ver[s]}
    BY DEF CurrentEntriesExact, IInv, ScriptInv
  <2>1. e.key.req \in Kinds
    BY <1>1 DEF TypeOK, Keys
  <2>2. s \in Stores /\ e.key.gens[s] = gen[s] /\ e.key.gens["data"] = gen["data"]
    BY <2>1, RequestFacts
  <2>3. e.seen[s] = {clean[s]}
    BY <2>2 DEF IInv, EntryInv
  <2> QED BY <2>2, <2>3 DEF IInv, CleanInv
<1>3. FreshAnswers
  BY DEF FreshAnswers, IInv, QueryInv, SeenInv
<1> QED BY <1>1, <1>2, <1>3

-----------------------------------------------------------------------------
(* Steps of a query.                                                        *)

QueryType == [pc : {"idle", "bypass", "capture", "search", "insert", "done"},
              req : Kinds, left : Seq(Counters), cap : [Counters -> Nat],
              seen : Results, floor : [Stores -> Nat]]

\* The entry is the result of the present content.
Exact(e) == /\ e.key.gens["data"] = gen["data"]
            /\ \A s \in ReadsOf(e.key.req) :
                 e.key.gens[s] = gen[s] /\ e.seen[s] = {clean[s]}

\* One query moves on: what has to be shown of it, and of a gate and of entries
\* that it changes.
LEMMA QueryMoves ==
  ASSUME IInv, NEW c \in Clients, NEW q \in QueryType,
         query' = [query EXCEPT ![c] = q],
         UNCHANGED <<storeVars, todo, loading, enabled, published>>,
         QueryInv(q),
         loading = "publishing" => q.pc = "idle",
         q.pc = "insert" <=> gate' = c,
         \/ gate' = gate
         \/ gate \in {"free", c} /\ gate' \in {"free", c},
         entries' \subseteq [key : Keys, seen : Results],
         \A e \in entries' : e \in entries \/ Exact(e)
  PROVE  IInv'
<1>1. TypeOK'
  <2>1. query' \in [Clients -> QueryType]
    BY DEF IInv, TypeOK, QueryType
  <2>2. \A d \in Clients : query'[d].pc = "insert" <=> gate' = d
    BY CoherenceConstants DEF IInv, TypeOK
  <2>3. loading' = "publishing" => \A d \in Clients : query'[d].pc = "idle"
    BY DEF IInv, TypeOK
  <2>4. gate' \in {"free", "writer"} \cup Clients /\ (todo' # <<>> => gate' = "writer")
    BY CoherenceConstants DEF IInv, TypeOK
  <2> QED BY <2>1, <2>2, <2>3, <2>4 DEF IInv, TypeOK, storeVars, QueryType
<1>2. CleanInv'
  BY DEF IInv, CleanInv, storeVars
<1>3. ScriptInv'
  BY CoherenceConstants DEF IInv, ScriptInv, storeVars, Retires, Dirties, CacheSteps
<1>4. EntryInv'
  <2> SUFFICES ASSUME NEW e \in entries'
               PROVE  /\ e.key.gens["data"] <= gen["data"]
                      /\ e.key.gens["data"] = gen["data"] =>
                           \A s \in ReadsOf(e.key.req) : (s # "co" \/ "co" \notin dirty) =>
                             /\ e.key.gens[s] <= gen[s]
                             /\ e.key.gens[s] = gen[s] => e.seen[s] = {clean[s]}
    BY DEF EntryInv, storeVars
  <2>1. CASE e \in entries
    BY <2>1 DEF IInv, EntryInv
  <2>2. CASE Exact(e)
    <3>1. e.key.req \in Kinds
      BY DEF Keys
    <3>2. \A s \in ReadsOf(e.key.req) : gen[s] \in Nat
      BY <3>1, RequestFacts DEF IInv, TypeOK, Counters
    <3>3. gen["data"] \in Nat
      BY DEF IInv, TypeOK, Counters
    <3> QED BY <2>2, <3>2, <3>3 DEF Exact
  <2> QED BY <2>1, <2>2
<1>5. ASSUME NEW d \in Clients PROVE QueryInv(query[d])'
  <2> DEFINE p == query'[d]
  <2>1. p \in QueryType /\ QueryInv(p)
    BY DEF IInv, TypeOK, QueryType
  <2>2. SeenInv(query[d])' /\ CaptureInv(query[d])' /\ ReadInv(query[d])'
    BY <2>1 DEF QueryInv, SeenInv, CaptureInv, ReadInv, Captured, storeVars
  <2>3. HitInv(query[d])'
    <3> SUFFICES ASSUME NEW s \in ReadsOf(p.req), Captured(p, s), NEW e \in entries',
                        e.key.req = p.req, e.key.gens[s] = p.cap[s],
                        e.key.gens["data"] = gen["data"], NEW v \in e.seen[s]
                 PROVE  v >= p.floor[s]
      BY DEF HitInv, Captured, storeVars
    <3>1. CASE e \in entries
      BY <2>1, <3>1 DEF QueryInv, HitInv
    <3>2. CASE Exact(e)
      <4>1. v = clean[s]
        BY <3>2 DEF Exact
      <4>2. s \in Stores /\ p.floor[s] <= clean[s]
        BY <2>1, RequestFacts DEF QueryInv, SeenInv, Captured, QueryType
      <4> QED BY <4>1, <4>2
    <3> QED BY <3>1, <3>2
  <2> QED BY <2>2, <2>3 DEF QueryInv
<1> QED BY <1>1, <1>2, <1>3, <1>4, <1>5 DEF IInv

\* The idle query, and a settled answer, have nothing captured.
LEMMA IdleQuery ==
  /\ Idle \in QueryType /\ Idle.pc = "idle"
  /\ QueryInv(Idle)
<1>1. "events" \in Kinds /\ 0 \in Nat /\ <<>> \in Seq(Counters)
  BY DEF Kinds
<1>2. /\ NoCapture \in [Counters -> Nat] /\ NothingSeen \in Results
      /\ [s \in Stores |-> 0] \in [Stores -> Nat]
  BY DEF NoCapture, NothingSeen, Results
<1>3. Idle \in QueryType /\ Idle.pc = "idle"
  BY <1>1, <1>2 DEF Idle, QueryType
<1> QED BY <1>3 DEF QueryInv, SeenInv, CaptureInv, ReadInv, HitInv, Captured

\* A query that has been answered.
Answered(c, seen) == [Idle EXCEPT !.pc = "done", !.req = query[c].req,
                                  !.seen = seen, !.floor = query[c].floor]

\* Answering keeps the invariant if nothing seen is too old.
LEMMA AnswerKeeps ==
  ASSUME IInv, NEW c \in Clients, NEW seen \in Results, query[c].pc # "idle",
         \A s \in ReadsOf(query[c].req) : \A v \in seen[s] : v >= query[c].floor[s]
  PROVE  /\ Answered(c, seen) \in QueryType /\ Answered(c, seen).pc = "done"
         /\ QueryInv(Answered(c, seen))
         /\ loading # "publishing"
<1> DEFINE a == Answered(c, seen)
<1>1. query[c] \in QueryType
  BY DEF IInv, TypeOK, QueryType
<1>2. /\ a \in QueryType /\ a.pc = "done" /\ a.req = query[c].req
      /\ a.seen = seen /\ a.floor = query[c].floor
  BY <1>1, IdleQuery DEF Answered, QueryType
<1>3. SeenInv(a)
  BY <1>2 DEF SeenInv, IInv, QueryInv
<1>4. CaptureInv(a) /\ ReadInv(a) /\ HitInv(a)
  BY <1>2 DEF CaptureInv, ReadInv, HitInv, Captured
<1>5. loading # "publishing"
  BY DEF IInv, TypeOK
<1> QED BY <1>2, <1>3, <1>4, <1>5 DEF QueryInv

\* A query that arrives owes the writes completed so far and has captured nothing.
LEMMA QueryBeginKeeps ==
  ASSUME IInv, NEW c \in Clients, NEW r \in Requests, QueryBegin(c, r)
  PROVE  IInv'
<1> DEFINE q == [Idle EXCEPT !.pc = IF published /\ enabled THEN "capture" ELSE "bypass",
                             !.req = r, !.left = CaptureOrder(r), !.floor = clean]
<1>1. query' = [query EXCEPT ![c] = q] /\ loading = "no"
      /\ UNCHANGED <<storeVars, todo, loading, enabled, published>>
      /\ gate' = gate /\ entries' = entries /\ query[c].pc = "idle"
  BY DEF QueryBegin, writerVars, cacheVars
<1>2. r \in Kinds
  BY CoherenceConstants
<1>3. clean \in [Stores -> Nat] /\ clean = q.floor /\ q.left = CaptureOrder(r) /\ q.req = r
      /\ q.pc \in {"capture", "bypass"} /\ q.seen = NothingSeen
  BY DEF IInv, TypeOK, Idle
<1>4. q \in QueryType
  BY <1>2, <1>3, IdleQuery, RequestFacts DEF QueryType
<1>5. \A d \in CountersOf(r) : ~ Captured(q, d)
  BY <1>2, <1>3, RequestFacts DEF Captured
<1>6. SeenInv(q)
  <2>1. \A s \in Stores : q.floor[s] <= clean[s]
    BY <1>3
  <2>2. \A s \in ReadsOf(q.req) : q.seen[s] = {}
    BY <1>2, <1>3, RequestFacts DEF NothingSeen
  <2> QED BY <2>1, <2>2 DEF SeenInv
<1>7. CaptureInv(q) /\ HitInv(q)
  BY <1>2, <1>3, <1>5, RequestFacts DEF CaptureInv, HitInv, Captured
<1>8. ReadInv(q)
  BY <1>3 DEF ReadInv
<1>9. gate # c /\ entries \subseteq [key : Keys, seen : Results]
  BY <1>1 DEF IInv, TypeOK
<1> QED BY <1>1, <1>3, <1>4, <1>6, <1>7, <1>8, <1>9, QueryMoves DEF QueryInv

\* Capturing a counter: every entry level with it holds the version it vouches for.
LEMMA CaptureKeeps ==
  ASSUME IInv, NEW c \in Clients, Capture(c)
  PROVE  IInv'
<1> DEFINE p == query[c]
           d == Head(p.left)
           q == [p EXCEPT !.cap = [p.cap EXCEPT ![d] = gen[d]], !.left = Tail(p.left)]
<1>1. p \in QueryType /\ p.pc = "capture" /\ p.left # <<>> /\ QueryInv(p)
  BY DEF Capture, IInv, TypeOK, QueryType
<1>2. d \in Counters /\ gen[d] \in Nat /\ Tail(p.left) \in Seq(Counters)
  BY <1>1 DEF IInv, TypeOK, QueryType
<1>3. query' = [query EXCEPT ![c] = q]
      /\ UNCHANGED <<storeVars, todo, loading, enabled, published>>
      /\ gate' = gate /\ entries' = entries
  BY <1>1 DEF Capture, writerVars, cacheVars, QueryType
<1>4. q \in QueryType /\ q.pc = "capture" /\ q.req = p.req /\ q.seen = p.seen /\ q.floor = p.floor
      /\ q.left = Tail(p.left) /\ q.cap = [p.cap EXCEPT ![d] = gen[d]]
  BY <1>1, <1>2 DEF QueryType
<1>5. loading # "publishing" /\ "co" \notin dirty /\ gate # c
  BY <1>1, CoDirtyLoads DEF IInv, TypeOK
<1>6. ASSUME NEW b \in Counters, Captured(q, b), b # d PROVE Captured(p, b) /\ q.cap[b] = p.cap[b]
  <2>1. \A i \in 1..Len(p.left) : i = 1 \/ (i - 1 \in 1..Len(Tail(p.left)) /\ Tail(p.left)[i-1] = p.left[i])
    BY <1>1 DEF QueryType
  <2>2. p.left[1] = d
    BY <1>1 DEF QueryType
  <2>3. \A i \in 1..Len(p.left) : p.left[i] # b
    BY <2>1, <2>2, <1>4, <1>6 DEF Captured
  <2> QED BY <2>3, <1>1, <1>4, <1>6 DEF Captured, QueryType
<1>7. q.cap[d] = gen[d]
  BY <1>1, <1>2, <1>4 DEF QueryType
<1>8. SeenInv(q) /\ ReadInv(q)
  BY <1>1, <1>4 DEF QueryInv, SeenInv, ReadInv
<1>9. CaptureInv(q)
  <2>1. \A b \in Counters : Captured(q, b) => q.cap[b] <= gen[b]
    BY <1>1, <1>2, <1>6, <1>7 DEF QueryInv, CaptureInv
  <2>2. Captured(q, "data") => q.cap["data"] = gen["data"]
    BY <1>1, <1>6, <1>7 DEF QueryInv, CaptureInv, Counters
  <2> QED BY <2>1, <2>2 DEF CaptureInv
<1>10. HitInv(q)
  <2> SUFFICES ASSUME NEW s \in ReadsOf(q.req), Captured(q, s), NEW e \in entries,
                      e.key.req = q.req, e.key.gens[s] = q.cap[s],
                      e.key.gens["data"] = gen["data"], NEW v \in e.seen[s]
               PROVE  v >= q.floor[s]
    BY DEF HitInv
  <2>1. s \in Stores /\ s \in Counters
    BY <1>4, RequestFacts DEF QueryType, Counters
  <2>2. CASE s = d
    <3>1. e.seen[s] = {clean[s]}
      BY <1>5, <1>7, <2>2 DEF IInv, EntryInv
    <3> QED BY <3>1, <2>1, <1>4, <1>1 DEF QueryInv, SeenInv
  <2>3. CASE s # d
    BY <2>1, <2>3, <1>6, <1>4, <1>1 DEF QueryInv, HitInv
  <2> QED BY <2>2, <2>3
<1>11. entries \subseteq [key : Keys, seen : Results]
  BY DEF IInv, TypeOK
<1> QED BY <1>3, <1>4, <1>5, <1>8, <1>9, <1>10, <1>11, QueryMoves DEF QueryInv

\* A hit: the key holds the captured counters, so the entry is new enough.
LEMMA LookupHitKeeps ==
  ASSUME IInv, NEW c \in Clients, LookupHit(c)
  PROVE  IInv'
<1> DEFINE p == query[c]
<1>1. p \in QueryType /\ p.pc = "capture" /\ p.left = <<>> /\ QueryInv(p)
  BY DEF LookupHit, IInv, TypeOK, QueryType
<1>2. PICK e \in entries : e.key = KeyOf(p) /\ query' = [query EXCEPT ![c] = Answered(c, e.seen)]
  BY DEF LookupHit, Answer, Answered
<1>3. e.key.req = p.req /\ e.key.gens = p.cap /\ e.seen \in Results
  BY <1>2 DEF KeyOf, IInv, TypeOK
<1>4. \A d \in CountersOf(p.req) : Captured(p, d)
  BY <1>1 DEF Captured
<1>5. e.key.gens["data"] = gen["data"]
  BY <1>1, <1>3, <1>4, RequestFacts DEF QueryInv, CaptureInv, QueryType
<1>6. \A s \in ReadsOf(p.req) : \A v \in e.seen[s] : v >= p.floor[s]
  BY <1>1, <1>3, <1>4, <1>5, RequestFacts DEF QueryInv, HitInv, QueryType
<1>7. /\ Answered(c, e.seen) \in QueryType /\ Answered(c, e.seen).pc = "done"
      /\ QueryInv(Answered(c, e.seen)) /\ loading # "publishing"
  BY <1>1, <1>3, <1>6, AnswerKeeps
<1>8. UNCHANGED <<storeVars, todo, loading, enabled, published>> /\ gate' = gate /\ entries' = entries
  BY DEF LookupHit, writerVars, cacheVars
<1>9. gate # c /\ entries \subseteq [key : Keys, seen : Results]
  BY <1>1 DEF IInv, TypeOK
<1> QED BY <1>2, <1>7, <1>8, <1>9, QueryMoves

\* A query that only moves its program counter from capture to search.
LEMMA LookupMissKeeps ==
  ASSUME IInv, NEW c \in Clients, LookupMiss(c)
  PROVE  IInv'
<1> DEFINE p == query[c]
           q == [p EXCEPT !.pc = "search"]
<1>1. p \in QueryType /\ p.pc = "capture" /\ p.left = <<>> /\ QueryInv(p)
  BY DEF LookupMiss, IInv, TypeOK, QueryType
<1>2. /\ query' = [query EXCEPT ![c] = q] /\ entries' \subseteq entries /\ gate' = gate
      /\ UNCHANGED <<storeVars, todo, loading, enabled, published>>
  BY DEF LookupMiss, Goto, writerVars
<1>3. q \in QueryType /\ q.pc = "search" /\ q.req = p.req /\ q.left = p.left /\ q.cap = p.cap
      /\ q.seen = NothingSeen /\ q.seen = p.seen /\ q.floor = p.floor
  BY <1>1 DEF QueryType, QueryInv, ReadInv
<1>4. \A d \in Counters : Captured(q, d) <=> Captured(p, d)
  BY <1>1, <1>3 DEF Captured
<1>5. SeenInv(q) /\ CaptureInv(q)
  BY <1>1, <1>3, <1>4 DEF QueryInv, SeenInv, CaptureInv, Counters
<1>6. HitInv(q)
  BY <1>1, <1>3 DEF QueryInv, HitInv, Captured
<1>7. \A s \in ReadsOf(q.req) : q.seen[s] = {}
  BY <1>1, <1>3, RequestFacts DEF NothingSeen, QueryType
<1>8. ReadInv(q)
  BY <1>1, <1>3, <1>7 DEF ReadInv
<1>9. gate # c /\ loading # "publishing" /\ entries' \subseteq [key : Keys, seen : Results]
  BY <1>1, <1>2 DEF IInv, TypeOK
<1> QED BY <1>2, <1>3, <1>5, <1>6, <1>8, <1>9, QueryMoves DEF QueryInv

\* Reading a store: its version is the vouched one unless a handler is changing it.
LEMMA SearchKeeps ==
  ASSUME IInv, NEW c \in Clients, NEW s \in Stores, Search(c, s)
  PROVE  IInv'
<1> DEFINE p == query[c]
           q == [p EXCEPT !.seen = [p.seen EXCEPT ![s] = p.seen[s] \cup {ver[s]}]]
<1>1. p \in QueryType /\ p.pc \in {"search", "bypass"} /\ s \in ReadsOf(p.req) /\ QueryInv(p)
  BY DEF Search, IInv, TypeOK, QueryType
<1>2. /\ query' = [query EXCEPT ![c] = q] /\ entries' = entries /\ gate' = gate
      /\ UNCHANGED <<storeVars, todo, loading, enabled, published>>
  BY <1>1 DEF Search, writerVars, cacheVars, QueryType
<1>3. ver[s] \in Nat /\ clean[s] <= ver[s] /\ clean[s] \in Nat /\ (s \notin dirty => clean[s] = ver[s])
  BY DEF IInv, TypeOK, CleanInv
<1>4. p.seen \in [Stores -> SUBSET Nat] /\ p.floor \in [Stores -> Nat]
  BY <1>1 DEF QueryType, Results
<1>5. q.seen = [p.seen EXCEPT ![s] = p.seen[s] \cup {ver[s]}] /\ q.seen \in Results
  BY <1>1, <1>3, <1>4 DEF QueryType, Results
<1>6. q \in QueryType /\ q.pc = p.pc /\ q.req = p.req /\ q.left = p.left /\ q.cap = p.cap
      /\ q.floor = p.floor
  BY <1>1, <1>5 DEF QueryType
<1>7. \A t \in Stores : q.seen[t] = IF t = s THEN p.seen[s] \cup {ver[s]} ELSE p.seen[t]
  BY <1>4, <1>5
<1>8. ReadsOf(p.req) \subseteq Stores
  BY <1>1, RequestFacts DEF QueryType
<1>9. SeenInv(q)
  <2>1. \A t \in Stores : q.floor[t] <= clean[t]
    BY <1>1, <1>6 DEF QueryInv, SeenInv
  <2>2. ver[s] >= q.floor[s]
    BY <2>1, <1>3, <1>4, <1>6
  <2>3. \A t \in ReadsOf(q.req) : \A v \in p.seen[t] : v >= q.floor[t]
    BY <1>1, <1>6 DEF QueryInv, SeenInv
  <2>4. ASSUME NEW t \in ReadsOf(q.req), NEW v \in q.seen[t] PROVE v >= q.floor[t]
    BY <2>2, <2>3, <1>6, <1>7, <1>8
  <2> QED BY <2>1, <2>4 DEF SeenInv
<1>10. CaptureInv(q) /\ HitInv(q)
  BY <1>1, <1>6 DEF QueryInv, CaptureInv, HitInv, Captured
<1>11. ReadInv(q)
  <2>1. q.pc = "search" => q.left = <<>>
    BY <1>1, <1>6 DEF QueryInv, ReadInv
  <2>2. ASSUME q.pc = "search", NEW t \in ReadsOf(q.req), q.cap[t] = gen[t], NEW v \in q.seen[t]
        PROVE  v = clean[t] \/ t \in dirty
    <3>1. v \in p.seen[t] => v = clean[t] \/ t \in dirty
      BY <2>2, <1>1, <1>6 DEF QueryInv, ReadInv
    <3> QED BY <2>2, <3>1, <1>3, <1>6, <1>7, <1>8
  <2> QED BY <2>1, <2>2, <1>1, <1>6 DEF ReadInv
<1>12. gate # c /\ loading # "publishing" /\ entries \subseteq [key : Keys, seen : Results]
  BY <1>1 DEF IInv, TypeOK
<1> QED BY <1>1, <1>2, <1>6, <1>9, <1>10, <1>11, <1>12, QueryMoves DEF QueryInv

\* A failed search and the end of an answered query leave an idle client.
LEMMA BackToIdleKeeps ==
  ASSUME IInv, NEW c \in Clients, SearchFails(c) \/ QueryEnd(c)
  PROVE  IInv'
<1>1. /\ query' = [query EXCEPT ![c] = Idle] /\ entries' = entries /\ gate' = gate
      /\ UNCHANGED <<storeVars, todo, loading, enabled, published>>
      /\ query[c].pc # "insert"
  BY DEF SearchFails, QueryEnd, writerVars, cacheVars
<1>2. gate # c /\ entries \subseteq [key : Keys, seen : Results]
  BY <1>1 DEF IInv, TypeOK
<1> QED BY <1>1, <1>2, IdleQuery, QueryMoves

\* A query that does not use the cache answers with what it saw.
LEMMA SearchBypassedKeeps ==
  ASSUME IInv, NEW c \in Clients, SearchBypassed(c)
  PROVE  IInv'
<1> DEFINE p == query[c]
<1>1. p \in QueryType /\ p.pc = "bypass" /\ QueryInv(p) /\ p.seen \in Results
  BY DEF SearchBypassed, IInv, TypeOK, QueryType
<1>2. /\ query' = [query EXCEPT ![c] = Answered(c, p.seen)] /\ entries' = entries /\ gate' = gate
      /\ UNCHANGED <<storeVars, todo, loading, enabled, published>>
  BY DEF SearchBypassed, Answer, Answered, writerVars, cacheVars
<1>3. \A s \in ReadsOf(p.req) : \A v \in p.seen[s] : v >= p.floor[s]
  BY <1>1 DEF QueryInv, SeenInv
<1>4. gate # c /\ entries \subseteq [key : Keys, seen : Results]
  BY <1>1 DEF IInv, TypeOK
<1> QED BY <1>1, <1>2, <1>3, <1>4, AnswerKeeps, QueryMoves

\* Entering the gate to store, or answering because a counter has moved.
LEMMA StoreKeeps ==
  ASSUME IInv, NEW c \in Clients, Store(c)
  PROVE  IInv'
<1> DEFINE p == query[c]
           q == [p EXCEPT !.pc = "insert"]
<1>1. p \in QueryType /\ p.pc = "search" /\ QueryInv(p) /\ p.seen \in Results
      /\ gate = "free" /\ SearchComplete(c) /\ c # "free"
  BY CoherenceConstants DEF Store, IInv, TypeOK, QueryType
<1>2. /\ entries' = entries /\ entries \subseteq [key : Keys, seen : Results]
      /\ UNCHANGED <<storeVars, todo, loading, enabled, published>>
  BY DEF Store, cacheVars, IInv, TypeOK
<1>3. CASE published /\ enabled /\ Unchanged(p)
  <2>1. gate' = c /\ query' = [query EXCEPT ![c] = q]
    BY <1>3 DEF Store, Goto
  <2>2. q \in QueryType /\ q.pc = "insert" /\ q.req = p.req /\ q.left = p.left /\ q.cap = p.cap
        /\ q.seen = p.seen /\ q.floor = p.floor
    BY <1>1 DEF QueryType
  <2>3. SeenInv(q) /\ CaptureInv(q) /\ HitInv(q)
    BY <1>1, <2>2 DEF QueryInv, SeenInv, CaptureInv, HitInv, Captured
  <2>4. ReadInv(q)
    BY <1>1, <1>3, <2>2 DEF QueryInv, ReadInv, Unchanged, SearchComplete
  <2>5. loading # "publishing"
    BY <1>1 DEF IInv, TypeOK
  <2> QED BY <1>1, <1>2, <2>1, <2>2, <2>3, <2>4, <2>5, QueryMoves DEF QueryInv
<1>4. CASE ~ (published /\ enabled /\ Unchanged(p))
  <2>1. gate' = gate /\ query' = [query EXCEPT ![c] = Answered(c, p.seen)]
    BY <1>4 DEF Store, Answer, Answered
  <2>2. \A s \in ReadsOf(p.req) : \A v \in p.seen[s] : v >= p.floor[s]
    BY <1>1 DEF QueryInv, SeenInv
  <2> QED BY <1>1, <1>2, <2>1, <2>2, AnswerKeeps, QueryMoves
<1> QED BY <1>3, <1>4

\* A new entry is exact: its query has the gate, so no store is half changed.
LEMMA InsertKeeps ==
  ASSUME IInv, NEW c \in Clients, Insert(c)
  PROVE  IInv'
<1> DEFINE p == query[c]
           new == [key |-> KeyOf(p), seen |-> p.seen]
<1>1. p \in QueryType /\ p.pc = "insert" /\ QueryInv(p) /\ p.seen \in Results
      /\ gate = c /\ c # "free" /\ c # "writer"
  BY CoherenceConstants DEF Insert, IInv, TypeOK, QueryType
<1>2. /\ query' = [query EXCEPT ![c] = Answered(c, p.seen)] /\ gate' = "free"
      /\ UNCHANGED <<storeVars, todo, loading, enabled, published>>
      /\ entries' \subseteq entries \cup {new}
  BY DEF Insert, Answer, Answered
<1>3. dirty = {}
  BY <1>1, GateCleans
<1>4. new.key.req = p.req /\ new.key.gens = p.cap /\ new.seen = p.seen
      /\ new \in [key : Keys, seen : Results]
  BY <1>1 DEF KeyOf, Keys, QueryType
<1>5. Exact(new)
  <2>1. p.cap["data"] = gen["data"]
    BY <1>1, RequestFacts DEF QueryInv, ReadInv, QueryType
  <2>2. ASSUME NEW s \in ReadsOf(p.req) PROVE p.cap[s] = gen[s] /\ p.seen[s] = {clean[s]}
    <3>1. s \in CountersOf(p.req)
      BY <1>1, RequestFacts DEF QueryType
    <3>2. p.cap[s] = gen[s] /\ p.seen[s] # {}
      BY <1>1, <3>1 DEF QueryInv, ReadInv
    <3>3. \A v \in p.seen[s] : v = clean[s]
      BY <1>1, <1>3, <3>2 DEF QueryInv, ReadInv
    <3> QED BY <3>2, <3>3
  <2> QED BY <1>4, <2>1, <2>2 DEF Exact
<1>6. entries' \subseteq [key : Keys, seen : Results] /\ \A e \in entries' : e \in entries \/ Exact(e)
  BY <1>2, <1>4, <1>5 DEF IInv, TypeOK
<1>7. \A s \in ReadsOf(p.req) : \A v \in p.seen[s] : v >= p.floor[s]
  BY <1>1 DEF QueryInv, SeenInv
<1> QED BY <1>1, <1>2, <1>6, <1>7, AnswerKeeps, QueryMoves

-----------------------------------------------------------------------------
(* Steps of the handlers.                                                   *)

\* What a step of a handler leaves of its script.
LEMMA TailFacts ==
  ASSUME NEW x \in Seq(Steps), x # <<>>
  PROVE  /\ Tail(x) \in Seq(Steps) /\ Head(x) = x[1] /\ 1 \in 1..Len(x)
         /\ Len(Tail(x)) = Len(x) - 1
         /\ \A i \in 1..Len(Tail(x)) : i + 1 \in 1..Len(x) /\ Tail(x)[i] = x[i + 1]
         /\ \A i \in 1..Len(x) : i > 1 => i - 1 \in 1..Len(Tail(x)) /\ x[i] = Tail(x)[i - 1]
OBVIOUS

\* A step keeps the script's promise if it cleans what it retires and dirties
\* only what it changes.
LEMMA ScriptStep ==
  ASSUME TypeOK, ScriptInv, NEW t, Working(t), gate' = gate, loading' = loading,
         \A s \in dirty' : Dirties(t, s) \/ (s \in dirty /\ ~ Retires(t, s)),
         dirty' \subseteq Stores
  PROVE  ScriptInv' /\ todo' \in Seq(Steps) /\ gate' = "writer"
<1>1. todo \in Seq(Steps) /\ todo # <<>> /\ todo[1] = t /\ todo' = Tail(todo) /\ gate = "writer"
  BY TailFacts DEF TypeOK, Working
<1>2. ASSUME NEW s \in dirty' PROVE \E i \in 1..Len(todo') : Retires(todo'[i], s)
  <2>1. \E i \in 1..Len(todo) : i > 1 /\ Retires(todo[i], s)
    <3>1. CASE Dirties(t, s)
      BY <1>1, <1>2, <3>1, TailFacts DEF ScriptInv
    <3>2. CASE s \in dirty /\ ~ Retires(t, s)
      <4>1. PICK i \in 1..Len(todo) : Retires(todo[i], s)
        BY <3>2 DEF ScriptInv
      <4> QED BY <4>1, <3>2, <1>1
    <3> QED BY <3>1, <3>2
  <2> QED BY <1>1, <2>1, TailFacts
<1>3. ASSUME NEW s \in Stores, NEW i \in 1..Len(todo'), Dirties(todo'[i], s)
      PROVE  \E j \in 1..Len(todo') : j > i /\ Retires(todo'[j], s)
  <2>1. i + 1 \in 1..Len(todo) /\ todo'[i] = todo[i + 1]
    BY <1>1, TailFacts
  <2>2. PICK j \in 1..Len(todo) : j > i + 1 /\ Retires(todo[j], s)
    BY <1>3, <2>1 DEF ScriptInv
  <2>3. j - 1 \in 1..Len(todo') /\ todo[j] = todo'[j - 1] /\ j - 1 > i
    BY <1>1, <2>1, <2>2, TailFacts
  <2> QED BY <2>2, <2>3
<1>4. \A i \in 1..Len(todo') : \A j \in 1..Len(todo') :
        i < j /\ todo'[i] \in CacheSteps => todo'[j] \in CacheSteps
  BY <1>1, TailFacts DEF ScriptInv
<1>5. \A i \in 1..Len(todo') : todo'[i] \in {"swap", "bump_data"} => loading' = "publishing"
  BY <1>1, TailFacts DEF ScriptInv
<1> QED BY <1>1, <1>2, <1>3, <1>4, <1>5, TailFacts DEF ScriptInv, Retires, Dirties, CacheSteps

\* The type invariant after a step of a handler that touches stores and counters.
LEMMA WorkTypes ==
  ASSUME TypeOK, todo' \in Seq(Steps), gate' = "writer", UNCHANGED <<gate, loading, cacheVars, query>>,
         ver' \in [Stores -> Nat], gen' \in [Counters -> Nat], dirty' \subseteq Stores,
         clean' \in [Stores -> Nat]
  PROVE  TypeOK'
BY DEF TypeOK, cacheVars

\* With the load publishing, no query has anything to keep.
LEMMA IdleWhilePublishing ==
  ASSUME TypeOK, loading = "publishing", query' = query
  PROVE  \A c \in Clients : QueryInv(query[c])'
BY DEF TypeOK, QueryInv, SeenInv, CaptureInv, ReadInv, HitInv, Captured

\* A change whose bump is still to come.
LEMMA ApplyKeeps ==
  ASSUME IInv, NEW s \in {"vec", "meta"}, Apply(s)
  PROVE  IInv'
<1>1. TypeOK /\ CleanInv /\ ScriptInv /\ EntryInv /\ s \in Stores
  BY DEF IInv, Stores
<1>2. Working(s) /\ ver' = [ver EXCEPT ![s] = ver[s] + 1] /\ dirty' = dirty \cup {s}
      /\ UNCHANGED <<gen, clean, gate, loading, cacheVars, query>>
  BY DEF Apply
<1>3. ScriptInv' /\ todo' \in Seq(Steps) /\ gate' = "writer"
  <2>1. Dirties(s, s) /\ \A t \in dirty : ~ Retires(s, t)
    BY DEF Dirties, Retires
  <2> QED BY <1>1, <1>2, <2>1, ScriptStep DEF TypeOK
<1>4. TypeOK'
  BY <1>1, <1>2, <1>3, WorkTypes, SMTT(30) DEF TypeOK
<1>5. CleanInv'
  BY <1>1, <1>2 DEF CleanInv, TypeOK
<1>6. EntryInv'
  <2>1. entries' = entries /\ ("co" \notin dirty' <=> "co" \notin dirty)
    BY <1>2 DEF cacheVars
  <2> QED BY <1>1, <1>2, <2>1 DEF EntryInv
<1>7. ASSUME NEW c \in Clients PROVE QueryInv(query[c])'
  <2>1. QueryInv(query[c]) /\ entries' = entries
    BY <1>2 DEF IInv, cacheVars
  <2>2. SeenInv(query[c])' /\ CaptureInv(query[c])' /\ HitInv(query[c])'
    BY <1>2, <2>1 DEF QueryInv, SeenInv, CaptureInv, HitInv, Captured
  <2>3. ReadInv(query[c])'
    BY <1>2, <2>1 DEF QueryInv, ReadInv
  <2> QED BY <2>2, <2>3 DEF QueryInv
<1> QED BY <1>3, <1>4, <1>5, <1>6, <1>7 DEF IInv

\* A counter that moves on: entries and captures with its old values are behind it.
LEMMA BumpedQueries ==
  ASSUME IInv, gate = "writer", NEW s \in Stores, UNCHANGED <<entries, query>>,
         gen' = [gen EXCEPT ![s] = gen[s] + 1],
         clean' \in [Stores -> Nat], clean'[s] >= clean[s],
         \A t \in Stores : t # s => clean'[t] = clean[t] /\ (t \in dirty => t \in dirty')
  PROVE  \A c \in Clients : QueryInv(query[c])'
<1> SUFFICES ASSUME NEW c \in Clients PROVE QueryInv(query[c])'
  OBVIOUS
<1> DEFINE q == query[c]
<1>1. q \in QueryType /\ QueryInv(q) /\ query'[c] = q
  BY DEF IInv, TypeOK, QueryType
<1>2. /\ gen \in [Counters -> Nat] /\ clean \in [Stores -> Nat] /\ s \in Counters /\ s # "data"
      /\ "data" \in Counters
      /\ q.floor \in [Stores -> Nat] /\ q.cap \in [Counters -> Nat]
  BY <1>1 DEF IInv, TypeOK, Stores, Counters, QueryType
<1>3. \A d \in Counters : gen[d] <= gen'[d] /\ (d # s => gen'[d] = gen[d]) /\ gen[d] \in Nat
      /\ gen'[s] = gen[s] + 1
  BY <1>2
<1>4. \A t \in Stores : clean[t] <= clean'[t] /\ clean[t] \in Nat /\ clean'[t] \in Nat
  BY <1>2
<1>5. SeenInv(q)'
  <2>1. \A t \in Stores : q.floor[t] <= clean[t] => q.floor[t] <= clean'[t]
    BY <1>2, <1>4
  <2> QED BY <1>1, <2>1 DEF QueryInv, SeenInv
<1>6. CaptureInv(q)'
  <2>1. \A d \in Counters : q.cap[d] <= gen[d] => q.cap[d] <= gen'[d]
    BY <1>2, <1>3
  <2> QED BY <1>1, <1>2, <1>3, <2>1 DEF QueryInv, CaptureInv, Captured
<1>7. HitInv(q)'
  BY <1>1, <1>2, <1>3 DEF QueryInv, HitInv, Captured
<1>8. ReadInv(q)'
  <2>1. ASSUME q.pc \in {"search", "insert"}, NEW t \in ReadsOf(q.req), q.cap[t] = gen'[t],
               NEW v \in q.seen[t]
        PROVE  v = clean'[t] \/ t \in dirty'
    <3>1. t \in Stores /\ t \in CountersOf(q.req) /\ t \in Counters
      BY <1>1, RequestFacts DEF QueryType, Counters
    <3>2. q.left = <<>>
      BY <1>1, <2>1 DEF QueryInv, ReadInv
    <3>3. q.cap[t] <= gen[t]
      BY <1>1, <2>1, <3>1, <3>2 DEF QueryInv, CaptureInv, Captured
    <3>4. t # s
      BY <1>2, <1>3, <2>1, <3>1, <3>3
    <3> QED BY <1>1, <1>3, <2>1, <3>1, <3>4 DEF QueryInv, ReadInv
  <2>2. q.pc # "insert"
    BY CoherenceConstants DEF IInv, TypeOK
  <2> QED BY <1>1, <2>1, <2>2 DEF QueryInv, ReadInv
<1> QED BY <1>1, <1>5, <1>6, <1>7, <1>8 DEF QueryInv

\* A change and its bump under one lock.
LEMMA ApplyCoKeeps ==
  ASSUME IInv, ApplyCo
  PROVE  IInv'
<1>1. TypeOK /\ CleanInv /\ ScriptInv /\ EntryInv /\ "co" \in Stores /\ "co" \in Counters
  BY DEF IInv, Stores, Counters
<1>2. /\ Working("co") /\ ver' = [ver EXCEPT !["co"] = ver["co"] + 1]
      /\ gen' = [gen EXCEPT !["co"] = gen["co"] + 1]
      /\ clean' = [clean EXCEPT !["co"] = ver["co"] + 1]
      /\ UNCHANGED <<dirty, gate, loading, cacheVars, query>>
  BY DEF ApplyCo
<1>3. ScriptInv' /\ todo' \in Seq(Steps) /\ gate' = "writer"
  <2>1. \A t \in dirty : ~ Retires("co", t)
    BY DEF Retires
  <2> QED BY <1>1, <1>2, <2>1, ScriptStep DEF TypeOK
<1>4. TypeOK'
  BY <1>1, <1>2, <1>3, WorkTypes DEF TypeOK
<1>5. CleanInv'
  BY <1>1, <1>2 DEF CleanInv, TypeOK
<1>6. EntryInv'
  <2>1. entries' = entries /\ gen'["data"] = gen["data"]
    BY <1>1, <1>2 DEF cacheVars, TypeOK, Counters
  <2>2. ASSUME NEW e \in entries, e.key.gens["data"] = gen["data"], NEW s \in ReadsOf(e.key.req),
               s # "co" \/ "co" \notin dirty
        PROVE  e.key.gens[s] <= gen'[s] /\ (e.key.gens[s] = gen'[s] => e.seen[s] = {clean'[s]})
    <3>1. e.key.gens[s] <= gen[s] /\ (e.key.gens[s] = gen[s] => e.seen[s] = {clean[s]})
      BY <1>1, <2>2 DEF EntryInv
    <3>2. s \in Stores /\ s \in Counters /\ e.key.gens[s] \in Nat
      BY <1>1, <2>2, RequestFacts DEF TypeOK, Keys, Counters
    <3> QED BY <1>1, <1>2, <3>1, <3>2 DEF TypeOK
  <2> QED BY <1>1, <1>2, <2>1, <2>2 DEF EntryInv
<1>7. \A c \in Clients : QueryInv(query[c])'
  <2>1. clean'["co"] >= clean["co"] /\ clean' \in [Stores -> Nat]
    BY <1>1, <1>2 DEF CleanInv, TypeOK
  <2>2. \A t \in Stores : t # "co" => clean'[t] = clean[t] /\ (t \in dirty => t \in dirty')
    BY <1>1, <1>2 DEF TypeOK
  <2>3. gate = "writer" /\ UNCHANGED <<entries, query>>
    BY <1>2 DEF Working, cacheVars
  <2> QED BY <1>1, <1>2, <2>1, <2>2, <2>3, BumpedQueries
<1> QED BY <1>3, <1>4, <1>5, <1>6, <1>7 DEF IInv

\* The bump that completes a change.
LEMMA BumpKeeps ==
  ASSUME IInv, NEW s \in {"vec", "meta"}, Bump(s)
  PROVE  IInv'
<1>1. TypeOK /\ CleanInv /\ ScriptInv /\ EntryInv /\ s \in Stores /\ s \in Counters /\ s # "co"
  BY DEF IInv, Stores, Counters
<1>2. /\ Working(BumpOf[s]) /\ gen' = [gen EXCEPT ![s] = gen[s] + 1]
      /\ clean' = [clean EXCEPT ![s] = ver[s]] /\ dirty' = dirty \ {s}
      /\ UNCHANGED <<ver, gate, loading, cacheVars, query>>
  BY DEF Bump
<1>3. ScriptInv' /\ todo' \in Seq(Steps) /\ gate' = "writer"
  <2>1. \A t \in dirty' : t \in dirty /\ ~ Retires(BumpOf[s], t)
    BY <1>2 DEF Retires, BumpOf
  <2>2. dirty' \subseteq Stores
    BY <1>1, <1>2 DEF TypeOK
  <2> HIDE DEF BumpOf
  <2> QED BY <1>1, <1>2, <2>1, <2>2, ScriptStep
<1>4. TypeOK'
  BY <1>1, <1>2, <1>3, WorkTypes DEF TypeOK
<1>5. CleanInv'
  BY <1>1, <1>2 DEF CleanInv, TypeOK
<1>6. EntryInv'
  <2>1. entries' = entries /\ gen'["data"] = gen["data"] /\ ("co" \in dirty' <=> "co" \in dirty)
    BY <1>1, <1>2 DEF cacheVars, TypeOK, Counters
  <2>2. ASSUME NEW e \in entries, e.key.gens["data"] = gen["data"], NEW t \in ReadsOf(e.key.req),
               t # "co" \/ "co" \notin dirty
        PROVE  e.key.gens[t] <= gen'[t] /\ (e.key.gens[t] = gen'[t] => e.seen[t] = {clean'[t]})
    <3>1. e.key.gens[t] <= gen[t] /\ (e.key.gens[t] = gen[t] => e.seen[t] = {clean[t]})
      BY <1>1, <2>2 DEF EntryInv
    <3>2. t \in Stores /\ t \in Counters /\ e.key.gens[t] \in Nat
      <4>1. e.key.req \in Kinds /\ e.key.gens \in [Counters -> Nat]
        BY <1>1, <2>2 DEF TypeOK, Keys
      <4>2. t \in Stores
        BY <2>2, <4>1, RequestFacts
      <4> QED BY <4>1, <4>2 DEF Counters
    <3> QED BY <1>1, <1>2, <3>1, <3>2 DEF TypeOK
  <2> QED BY <1>1, <1>2, <2>1, <2>2 DEF EntryInv
<1>7. \A c \in Clients : QueryInv(query[c])'
  <2>1. clean'[s] >= clean[s] /\ clean' \in [Stores -> Nat]
    BY <1>1, <1>2 DEF CleanInv, TypeOK
  <2>2. \A t \in Stores : t # s => clean'[t] = clean[t] /\ (t \in dirty => t \in dirty')
    BY <1>1, <1>2 DEF TypeOK
  <2>3. gate = "writer" /\ UNCHANGED <<entries, query>>
    BY <1>2 DEF Working, cacheVars
  <2> QED BY <1>1, <1>2, <2>1, <2>2, <2>3, BumpedQueries
<1> QED BY <1>3, <1>4, <1>5, <1>6, <1>7 DEF IInv

\* Only a load swaps the stores or bumps the dataset's counter.
LEMMA PublishingSteps ==
  ASSUME TypeOK, ScriptInv, Working("swap") \/ Working("bump_data")
  PROVE  loading = "publishing"
BY TailFacts DEF TypeOK, ScriptInv, Working

\* The load replaces every store, and the co-occurrence counter by an unrelated one.
LEMMA SwapKeeps ==
  ASSUME IInv, Swap
  PROVE  IInv'
<1>1. TypeOK /\ CleanInv /\ ScriptInv /\ EntryInv /\ Working("swap")
  BY DEF IInv, Swap
<1>2. PICK g \in 0..MaxBumps : gen' = [gen EXCEPT !["co"] = g]
  BY DEF Swap
<1>3. ver' = [s \in Stores |-> ver[s] + 1] /\ dirty' = Stores
      /\ UNCHANGED <<clean, gate, loading, cacheVars, query>>
  BY DEF Swap
<1>4. ScriptInv' /\ todo' \in Seq(Steps) /\ gate' = "writer"
  <2>1. \A s \in Stores : Dirties("swap", s)
    BY DEF Dirties
  <2> QED BY <1>1, <1>3, <2>1, ScriptStep
<1>5. TypeOK'
  <2>1. g \in Nat
    BY CoherenceConstants
  <2>2. gen' \in [Counters -> Nat]
    <3>1. gen \in [Counters -> Nat]
      BY <1>1 DEF TypeOK
    <3> QED BY <1>2, <2>1, <3>1
  <2>3. ver' \in [Stores -> Nat]
    <3>1. \A s \in Stores : ver[s] + 1 \in Nat
      BY <1>1 DEF TypeOK
    <3> QED BY <1>3, <3>1
  <2> QED BY <1>1, <1>3, <1>4, <2>2, <2>3, WorkTypes DEF TypeOK
<1>6. CleanInv'
  BY <1>1, <1>3 DEF CleanInv, TypeOK
<1>7. EntryInv'
  <2>1. entries' = entries /\ "co" \in dirty' /\ \A d \in Counters : d # "co" => gen'[d] = gen[d]
    BY <1>1, <1>2, <1>3 DEF cacheVars, TypeOK, Stores
  <2>2. \A e \in entries : ReadsOf(e.key.req) \subseteq Counters /\ "data" \in Counters
    BY <1>1, RequestFacts DEF TypeOK, Keys, Counters
  <2> QED BY <1>1, <1>3, <2>1, <2>2 DEF EntryInv
<1>8. \A c \in Clients : QueryInv(query[c])'
  BY <1>1, <1>3, PublishingSteps, IdleWhilePublishing
<1> QED BY <1>4, <1>5, <1>6, <1>7, <1>8 DEF IInv

\* The load's last bump leaves every old entry behind.
LEMMA BumpDataKeeps ==
  ASSUME IInv, BumpData
  PROVE  IInv'
<1>1. TypeOK /\ CleanInv /\ ScriptInv /\ EntryInv /\ Working("bump_data") /\ "data" \in Counters
  BY DEF IInv, BumpData, Counters
<1>2. gen' = [gen EXCEPT !["data"] = gen["data"] + 1] /\ dirty' = {} /\ clean' = ver
      /\ UNCHANGED <<ver, gate, loading, cacheVars, query>>
  BY DEF BumpData
<1>3. ScriptInv' /\ todo' \in Seq(Steps) /\ gate' = "writer"
  BY <1>1, <1>2, ScriptStep
<1>4. TypeOK'
  BY <1>1, <1>2, <1>3, WorkTypes DEF TypeOK
<1>5. CleanInv'
  BY <1>1, <1>2 DEF CleanInv, TypeOK
<1>6. EntryInv'
  <2>1. entries' = entries /\ gen'["data"] = gen["data"] + 1 /\ gen["data"] \in Nat
    BY <1>1, <1>2 DEF cacheVars, TypeOK
  <2>2. \A e \in entries : e.key.gens["data"] \in Nat /\ e.key.gens["data"] <= gen["data"]
    BY <1>1 DEF TypeOK, Keys, EntryInv
  <2>3. \A e \in entries : e.key.gens["data"] <= gen'["data"] /\ e.key.gens["data"] # gen'["data"]
    BY <2>1, <2>2
  <2> QED BY <2>1, <2>3 DEF EntryInv
<1>7. \A c \in Clients : QueryInv(query[c])'
  BY <1>1, <1>2, PublishingSteps, IdleWhilePublishing
<1> QED BY <1>3, <1>4, <1>5, <1>6, <1>7 DEF IInv

-----------------------------------------------------------------------------
(* Steps that leave the stores and the queries alone.                        *)

\* What has to be shown of a step that changes the gate, the script, the load or
\* the switches of the cache, and may drop entries.
LEMMA QuietStep ==
  ASSUME IInv, UNCHANGED <<storeVars, query>>, entries' \subseteq entries, ScriptInv',
         enabled' \in BOOLEAN, published' \in BOOLEAN,
         loading' \in {"no", "staging", "publishing", "halted"},
         todo' \in Seq(Steps), todo' # <<>> => gate' = "writer",
         gate' = gate \/ {gate, gate'} \subseteq {"free", "writer"},
         loading' = "publishing" => \A c \in Clients : query[c].pc = "idle"
  PROVE  IInv'
<1>1. TypeOK'
  <2>1. \A c \in Clients : query'[c].pc = "insert" <=> gate' = c
    BY CoherenceConstants DEF IInv, TypeOK
  <2>2. gate' \in {"free", "writer"} \cup Clients
    BY DEF IInv, TypeOK
  <2> QED BY <2>1, <2>2 DEF IInv, TypeOK, storeVars
<1>2. CleanInv' /\ EntryInv'
  BY DEF IInv, CleanInv, EntryInv, storeVars
<1>3. ASSUME NEW c \in Clients PROVE QueryInv(query[c])'
  <2>1. QueryInv(query[c])
    BY DEF IInv
  <2> QED BY <2>1 DEF QueryInv, SeenInv, CaptureInv, ReadInv, HitInv, Captured, storeVars
<1> QED BY <1>1, <1>2, <1>3 DEF IInv

\* A script taken with the gate is one whose changes are followed by their bumps.
LEMMA BeginsWell ==
  ASSUME TypeOK, dirty' = {},
         todo' \in EventScripts \cup VecsetScripts \cup VecdelScripts \cup MetasetScripts \cup DecayScripts
  PROVE  ScriptInv' /\ todo' \in Seq(Steps)
<1> SUFFICES ASSUME NEW x, x = todo' PROVE
      /\ x \in Seq(Steps)
      /\ \A s \in Stores : \A i \in 1..Len(x) :
           Dirties(x[i], s) => \E j \in 1..Len(x) : j > i /\ Retires(x[j], s)
      /\ \A i \in 1..Len(x) : \A j \in 1..Len(x) :
           i < j /\ x[i] \in CacheSteps => x[j] \in CacheSteps
      /\ \A i \in 1..Len(x) : x[i] \notin {"swap", "bump_data"}
  BY DEF ScriptInv, Dirties, Retires, CacheSteps
<1>1. {"co", "vec", "meta", "invalidate", "clear", "bump_vec", "bump_meta"} \subseteq Steps
  BY DEF Steps, Stores
<1>0. CASE x = <<>>
  BY <1>0
<1>2. CASE x = <<"co", "invalidate">>
  BY <1>1, <1>2 DEF Dirties, Retires, CacheSteps
<1>3. CASE x = <<"invalidate">>
  BY <1>1, <1>3 DEF Dirties, Retires, CacheSteps
<1>4. CASE x = <<"co">>
  BY <1>1, <1>4 DEF Dirties, Retires, CacheSteps
<1>5. CASE x = <<"co", "co">>
  BY <1>1, <1>5 DEF Dirties, Retires, CacheSteps
<1>6. CASE x = <<"vec", "vec", "bump_vec", "invalidate">>
  BY <1>1, <1>6 DEF Dirties, Retires, CacheSteps
<1>7. CASE x = <<"vec", "meta", "vec", "bump_vec", "bump_meta", "invalidate", "clear">>
  BY <1>1, <1>7 DEF Dirties, Retires, CacheSteps
<1>8. CASE x = <<"vec", "meta", "vec", "bump_vec", "bump_meta", "invalidate">>
  BY <1>1, <1>8 DEF Dirties, Retires, CacheSteps
<1>9. CASE x = <<"meta", "bump_meta", "clear">>
  BY <1>1, <1>9 DEF Dirties, Retires, CacheSteps
<1> QED BY <1>0, <1>2, <1>3, <1>4, <1>5, <1>6, <1>7, <1>8, <1>9
        DEF EventScripts, DecayScripts, VecsetScripts, VecdelScripts, MetasetScripts

\* A command or the decay takes the gate.
LEMMA BeginKeeps ==
  ASSUME IInv, WriteBegin \/ DecayBegin
  PROVE  IInv'
<1>1. /\ gate = "free" /\ gate' = "writer"
      /\ todo' \in EventScripts \cup VecsetScripts \cup VecdelScripts \cup MetasetScripts \cup DecayScripts
      /\ UNCHANGED <<storeVars, loading, cacheVars, query>>
  BY DEF WriteBegin, DecayBegin
<1>2. dirty' = {}
  BY <1>1, GateCleans DEF storeVars
<1>3. ScriptInv' /\ todo' \in Seq(Steps)
  BY <1>1, <1>2, BeginsWell DEF IInv
<1> QED BY <1>1, <1>3, QuietStep DEF IInv, TypeOK, cacheVars

\* The load publishes when the queries are gone.
LEMMA LoadPublishKeeps ==
  ASSUME IInv, LoadPublish
  PROVE  IInv'
<1>1. gate = "free" /\ gate' = "writer" /\ todo' = LoadScript /\ loading' = "publishing"
      /\ DrainedQueries /\ UNCHANGED <<storeVars, cacheVars, query>>
  BY DEF LoadPublish
<1>2. dirty' = {}
  BY <1>1, GateCleans DEF storeVars
<1>3. ScriptInv' /\ todo' \in Seq(Steps)
  <2> DEFINE x == LoadScript
  <2>1. /\ x \in Seq(Steps) /\ Len(x) = 5 /\ x[1] = "swap" /\ x[2] = "bump_vec"
        /\ x[3] = "bump_meta" /\ x[4] = "bump_data" /\ x[5] = "clear"
    <3>1. {"swap", "bump_vec", "bump_meta", "bump_data", "clear"} \subseteq Steps
      BY DEF Steps
    <3> QED BY <3>1 DEF LoadScript
  <2> HIDE DEF x
  <2>2. \A s \in Stores : \A i \in 1..Len(x) :
          Dirties(x[i], s) => \E j \in 1..Len(x) : j > i /\ Retires(x[j], s)
    BY <2>1 DEF Dirties, Retires
  <2>3. \A i \in 1..Len(x) : \A j \in 1..Len(x) :
          i < j /\ x[i] \in CacheSteps => x[j] \in CacheSteps
    BY <2>1 DEF CacheSteps
  <2> QED BY <1>1, <1>2, <2>1, <2>2, <2>3 DEF x, ScriptInv, Dirties, Retires, CacheSteps
<1> QED BY <1>1, <1>3, QuietStep DEF IInv, TypeOK, cacheVars, DrainedQueries

\* A load begins or is refused: no script depends on it.
LEMMA LoadSwitchKeeps ==
  ASSUME IInv, LoadBegin \/ LoadRefused
  PROVE  IInv'
<1>1. loading # "publishing" /\ loading' \in {"no", "staging"}
      /\ UNCHANGED <<storeVars, writerVars, cacheVars, query>>
  BY DEF LoadBegin, LoadRefused
<1>2. ScriptInv'
  BY <1>1 DEF IInv, ScriptInv, storeVars, writerVars, Dirties, Retires, CacheSteps
<1> QED BY <1>1, <1>2, QuietStep DEF IInv, TypeOK, writerVars, cacheVars

\* The cache is touched last: nothing is dirty any more.
LEMMA InvalidateKeeps ==
  ASSUME IInv, Invalidate
  PROVE  IInv'
<1>1. TypeOK /\ ScriptInv /\ todo \in Seq(Steps) /\ gate = "writer" /\ todo # <<>>
      /\ todo[1] \in CacheSteps /\ 1 \in 1..Len(todo)
  BY TailFacts DEF IInv, TypeOK, Invalidate, CacheSteps
<1>2. UNCHANGED <<storeVars, gate, loading, enabled, published, query>>
      /\ entries' \subseteq entries /\ todo' \in {Tail(todo), <<>>}
  BY DEF Invalidate
<1>3. \A i \in 1..Len(todo) : todo[i] \in CacheSteps
  BY <1>1 DEF ScriptInv
<1>4. dirty' = {}
  BY <1>1, <1>2, <1>3 DEF ScriptInv, Retires, CacheSteps, storeVars
<1>5. todo' \in Seq(Steps) /\ \A i \in 1..Len(todo') : todo'[i] \in CacheSteps
  <2>1. CASE todo' = Tail(todo)
    BY <1>1, <1>3, <2>1, TailFacts
  <2>2. CASE todo' = <<>>
    BY <2>2
  <2> QED BY <1>2, <2>1, <2>2
<1>6. ScriptInv'
  BY <1>4, <1>5 DEF ScriptInv, Dirties, CacheSteps, Stores
<1> QED BY <1>1, <1>2, <1>5, <1>6, QuietStep DEF IInv, TypeOK

\* The handler leaves the gate with its script done.
LEMMA ReleaseKeeps ==
  ASSUME IInv, Release
  PROVE  IInv'
<1>1. /\ gate = "writer" /\ gate' = "free" /\ todo = <<>> /\ todo' = todo
      /\ UNCHANGED <<storeVars, cacheVars, query>>
      /\ loading' \in (IF loading = "publishing" THEN {"no", "halted"} ELSE {loading})
  BY DEF Release
<1>2. dirty' = {}
  BY <1>1 DEF IInv, ScriptInv, storeVars
<1>3. ScriptInv'
  BY <1>1, <1>2 DEF ScriptInv
<1> QED BY <1>1, <1>3, QuietStep DEF IInv, TypeOK, cacheVars

\* Cache administration does not touch the protocol's state.
LEMMA AdminKeeps ==
  ASSUME IInv, (\E on \in BOOLEAN : SetEnabled(on)) \/ Publish \/ CacheClear
  PROVE  IInv'
<1>1. UNCHANGED <<storeVars, writerVars, loading, query>> /\ entries' \subseteq entries
      /\ enabled' \in BOOLEAN /\ published' \in BOOLEAN
  BY DEF SetEnabled, Publish, CacheClear, IInv, TypeOK
<1>2. ScriptInv'
  BY <1>1 DEF IInv, ScriptInv, storeVars, writerVars, Dirties, Retires, CacheSteps
<1> QED BY <1>1, <1>2, QuietStep DEF IInv, TypeOK, writerVars

-----------------------------------------------------------------------------
(* The theorems.                                                            *)

\* The invariant holds at the start.
LEMMA InitKeeps == Init => IInv
<1> SUFFICES ASSUME Init PROVE IInv
  OBVIOUS
<1>1. TypeOK
  <2>1. query \in [Clients -> QueryType] /\ \A c \in Clients : query[c].pc = "idle"
    BY IdleQuery DEF Init
  <2> QED BY <2>1, CoherenceConstants DEF Init, TypeOK, QueryType
<1>2. CleanInv /\ ScriptInv /\ EntryInv
  BY DEF Init, CleanInv, ScriptInv, EntryInv
<1>3. \A c \in Clients : QueryInv(query[c])
  BY IdleQuery DEF Init
<1> QED BY <1>1, <1>2, <1>3 DEF IInv

\* Every step of the system keeps it.
LEMMA NextKeeps == IInv /\ [Next]_vars => IInv'
<1> SUFFICES ASSUME IInv, [Next]_vars PROVE IInv'
  OBVIOUS
<1>1. ASSUME NEW c \in Clients, QueryStep(c) PROVE IInv'
  BY <1>1, QueryBeginKeeps, CaptureKeeps, LookupHitKeeps, LookupMissKeeps, SearchKeeps,
     BackToIdleKeeps, SearchBypassedKeeps, StoreKeeps, InsertKeeps DEF QueryStep
<1>2. CASE WriterStep
  BY <1>2, ApplyKeeps, BumpKeeps, ApplyCoKeeps, SwapKeeps, BumpDataKeeps, InvalidateKeeps, ReleaseKeeps
     DEF WriterStep
<1>3. CASE WriteBegin \/ DecayBegin \/ LoadBegin \/ LoadRefused \/ LoadPublish
  BY <1>3, BeginKeeps, LoadSwitchKeeps, LoadPublishKeeps
<1>4. CASE (\E on \in BOOLEAN : SetEnabled(on)) \/ Publish \/ CacheClear
  BY <1>4, AdminKeeps
<1>5. CASE UNCHANGED vars
  <2>1. UNCHANGED <<storeVars, query>> /\ UNCHANGED <<writerVars, loading, enabled, published, entries>>
    BY <1>5 DEF vars, storeVars, writerVars
  <2>2. ScriptInv'
    BY <2>1 DEF IInv, ScriptInv, storeVars, writerVars, Dirties, Retires, CacheSteps
  <2> QED BY <2>1, <2>2, QuietStep DEF IInv, TypeOK, writerVars
<1> QED BY <1>1, <1>2, <1>3, <1>4, <1>5 DEF Next

\* The state stays well typed and the gates are respected: only the handler or the
\* query inside the write gate acts as its holder, and a DUMP LOAD publishes alone.
THEOREM CacheTypeCorrect == Spec => []TypeOK
<1>1. IInv => TypeOK
  BY IInvImplies
<1> QED BY <1>1, InitKeeps, NextKeeps, PTL DEF Spec

\* For any number of clients and writes, an entry that a lookup with the present
\* counters can hit is exact.
THEOREM CacheExact == Spec => []CurrentEntriesExact
<1>1. IInv => CurrentEntriesExact
  BY IInvImplies
<1> QED BY <1>1, InitKeeps, NextKeeps, PTL DEF Spec

\* For any number of clients and writes, every SIM or SIMV answer contains the
\* writes that were complete when the query arrived.
THEOREM AnswersFresh == Spec => []FreshAnswers
<1>1. IInv => FreshAnswers
  BY IInvImplies
<1> QED BY <1>1, InitKeeps, NextKeeps, PTL DEF Spec
=============================================================================
