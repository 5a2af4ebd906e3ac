------------------------------ MODULE MCCache ------------------------------
(***************************************************************************)
(* The cache protocol on two small instances: one fusion query at a time     *)
(* across two writes, and two vector queries side by side across one write.  *)
(* part says which of the two a behaviour is in.                             *)
(***************************************************************************)
EXTENDS CacheCoherence, FiniteSets, TLC

VARIABLE part

Asked(kind) == \A c \in Clients : query'[c].pc # "idle" => query'[c].req = kind

OneAtATime ==
  /\ Asked("fusion")
  /\ Cardinality({c \in Clients : query'[c].pc # "idle"}) <= 1

OneWrite ==
  /\ Asked("simv")
  /\ gate' = "writer" /\ gate # "writer" => \A d \in Counters : gen[d] = 0

MCInit == Init /\ part \in {"alone", "together"}

MCNext ==
  /\ Next
  /\ IF part = "alone" THEN OneAtATime ELSE OneWrite
  /\ UNCHANGED part

MCSpec == MCInit /\ [][MCNext]_<<vars, part>>

ClientSymmetry == Permutations(Clients)
=============================================================================
