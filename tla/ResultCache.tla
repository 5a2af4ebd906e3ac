---------------------------- MODULE ResultCache ----------------------------
(***************************************************************************)
(* What a caller may expect of the similarity cache: a partial map that may   *)
(* lose an entry at any time, never returns anything but what was inserted    *)
(* under the key, and forgets on demand.  SimilarityCache implements it.      *)
(***************************************************************************)
CONSTANTS Keys, Values, Items, Miss

VARIABLES
  enabled,
  entries,   \* what a lookup can return: set of [key, val, items]
  last       \* the last call that has returned, with its result

vars == <<enabled, entries, last>>

Init == entries = {} /\ last = [op |-> "none"] /\ enabled \in BOOLEAN

At(E, k) == {e \in E : e.key = k}

\* Exact while the cache is enabled: a hit if and only if the entry is there.
Lookup(k) ==
  /\ last' = [op |-> "lookup", key |-> k,
              val |-> IF enabled /\ At(entries, k) # {}
                      THEN (CHOOSE e \in At(entries, k) : TRUE).val ELSE Miss]
  /\ UNCHANGED <<enabled, entries>>

\* An insertion replaces nothing, may push out any entries, and reports true
\* only if its own entry stays.
Insert(k, v, S) ==
  LET new == [key |-> k, val |-> v, items |-> S] IN
  /\ last' \in [op : {"insert"}, key : {k}, ok : BOOLEAN]
  /\ entries' \subseteq entries \cup {new}
  /\ At(entries, k) # {} => entries' = entries
  /\ ~enabled => entries' = entries
  /\ last'.ok = (new \in entries' /\ At(entries, k) = {})
  /\ UNCHANGED enabled

\* An entry comes to depend on more items.
Register(k, S) ==
  /\ last' = [op |-> "register", key |-> k]
  /\ \E gone \in SUBSET entries :
       entries' = {IF e.key = k THEN [e EXCEPT !.items = @ \cup S] ELSE e : e \in entries \ gone}
  /\ UNCHANGED enabled

\* Exactly the entries that depend on the item go.
InvalidateByItemId(i) ==
  /\ last' = [op |-> "invalidate", item |-> i]
  /\ entries' = {e \in entries : i \notin e.items}
  /\ UNCHANGED enabled

\* After an erasure no lookup of the key hits, and nothing else is touched.
Erase(k) ==
  /\ last' = [op |-> "erase", key |-> k]
  /\ entries' = entries \ At(entries, k)
  /\ UNCHANGED enabled

Clear ==
  /\ last' = [op |-> "clear"]
  /\ entries' = {}
  /\ UNCHANGED enabled

\* Time passes: an entry reaches its expiry.
Forget ==
  /\ entries' \in SUBSET entries
  /\ UNCHANGED <<enabled, last>>

SetEnabled ==
  /\ enabled' = ~enabled
  /\ UNCHANGED <<entries, last>>

Next ==
  \/ \E k \in Keys : Lookup(k) \/ Erase(k)
  \/ \E k \in Keys, v \in Values, S \in SUBSET Items : Insert(k, v, S)
  \/ \E k \in Keys, S \in SUBSET Items : Register(k, S)
  \/ \E i \in Items : InvalidateByItemId(i)
  \/ Clear \/ Forget \/ SetEnabled

Spec == Init /\ [][Next]_vars
=============================================================================
