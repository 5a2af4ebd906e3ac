------------------------------ MODULE MCStores ------------------------------
(***************************************************************************)
(* The stores, each on a small instance: events with the co-occurrence      *)
(* index, vectors with metadata and the ANN index, and the gates in front   *)
(* of all of them.  They share no state (module CacheCoherence has what     *)
(* relates them), so a behaviour is about one of them: part says which.     *)
(***************************************************************************)
EXTENDS EventIngest, VectorIndex, WriteGate

VARIABLE part

storesVars == <<part, ingestVars, vectorVars, gateVars>>

Init ==
  /\ part \in {"events", "vectors", "gates"}
  /\ EInit /\ VInit /\ GateInit
  /\ part # "events" => config = CHOOSE c \in Configs : TRUE
  /\ part # "vectors" => kind = CHOOSE k \in Kinds : TRUE
  /\ part # "gates" => save_mode = "save"

Next ==
  \/ /\ part = "events" /\ ENext
     /\ UNCHANGED <<part, vectorVars, gateVars>>
  \/ /\ part = "vectors" /\ VNext
     /\ UNCHANGED <<part, ingestVars, gateVars>>
  \/ /\ part = "gates" /\ GateNext
     /\ UNCHANGED <<part, ingestVars, vectorVars>>

Spec == Init /\ [][Next]_storesVars

(* The variables of the structures keep their shape. *)
TypeOK == ETypeOK /\ VTypeOK /\ GateTypeOK

-----------------------------------------------------------------------------
(* The instances.                                                           *)

Ev(c, i, s, k, t) == [ctx |-> c, id |-> i, score |-> s, type |-> k, ts |-> t]
SomeOffers == {Ev("a", 1, 1, "ADD", 2), Ev("a", 1, 1, "ADD", 4), Ev("a", 2, 2, "ADD", 0),
               Ev("a", 3, 1, "SET", 2), Ev("a", 3, 1, "DEL", 2), Ev("b", 2, 1, "ADD", 2)}
Cf(n, m, g) == [max_neighbors |-> n, min_support |-> m, negative_signals |-> g]
SomeConfigs == {Cf(0, 0, FALSE), Cf(1, 0, FALSE), Cf(0, 5, TRUE)}

BothKinds == {"hnsw", "ivf"}
Symmetry == Permutations(Ids)
=============================================================================
