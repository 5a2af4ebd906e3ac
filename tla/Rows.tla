-------------------------------- MODULE Rows --------------------------------
(***************************************************************************)
(* The compaction loop that the vector stores and the HNSW graph share, and *)
(* the removal from a list of recent entries: the rows to keep are copied to *)
(* the front in their order.  It is written by the rank of a row among the  *)
(* rows kept, so that it can be reasoned about without induction.  With it, *)
(* the two map updates of those modules.                                    *)
(***************************************************************************)
EXTENDS Naturals, Sequences, FiniteSets

\* The place of row j among the rows of keep.
Rank(keep, j) == Cardinality({k \in keep : k <= j})

\* The members of a set of numbers in ascending order.
InOrder(keep) == [i \in 1..Cardinality(keep) |-> CHOOSE j \in keep : Rank(keep, j) = i]

\* The rows of s whose numbers are in keep, in their order.
Compact(s, keep) ==
    [i \in 1..Cardinality(keep) |-> s[CHOOSE j \in keep : Rank(keep, j) = i]]

\* The map f with the value v at k.
Assign(f, k, v) == [x \in DOMAIN f \union {k} |-> IF x = k THEN v ELSE f[x]]

\* The map f, and g where f has nothing.
Over(f, g) == [x \in DOMAIN f \union DOMAIN g |-> IF x \in DOMAIN f THEN f[x] ELSE g[x]]
=============================================================================
