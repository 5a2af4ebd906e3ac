----------------------------- MODULE MCThreads -----------------------------
(***************************************************************************)
(* The machineries of threads around the stores, each on a small instance:  *)
(* a connection between the reactor and the workers, the acceptors with the *)
(* pool and Stop, the fork writer, the merge scheduler, and the client's    *)
(* round trip.  They share no state, so a behaviour is about one of them:   *)
(* part says which, and the others stay as they were initially.             *)
(***************************************************************************)
EXTENDS Connection, Server, ForkWriter, TieredStore, Client

VARIABLE part

Parts == {"connection", "server", "fork", "tiers", "client"}

threadVars == <<part, connVars, serverVars, forkVars, tierVars, clientVars>>

Init ==
  /\ part \in Parts
  /\ ConnInit /\ ServerInit /\ ForkInit /\ TInit /\ ClientInit

Next ==
  \/ /\ part = "connection" /\ ConnNext
     /\ UNCHANGED <<part, serverVars, forkVars, tierVars, clientVars>>
  \/ /\ part = "server" /\ ServerNext
     /\ UNCHANGED <<part, connVars, forkVars, tierVars, clientVars>>
  \/ /\ part = "fork" /\ ForkNext
     /\ UNCHANGED <<part, connVars, serverVars, tierVars, clientVars>>
  \/ /\ part = "tiers" /\ TNext
     /\ UNCHANGED <<part, connVars, serverVars, forkVars, clientVars>>
  \/ /\ part = "client" /\ ClientNext
     /\ UNCHANGED <<part, connVars, serverVars, forkVars, tierVars>>

(* The fairness of each module (ConnFairness, ServerFairness, ForkFairness, *)
(* TFairness), for the behaviours that are about it.                        *)
Fairness ==
  /\ WF_connVars(part = "connection" /\ ReactorStep)
  /\ \A w \in Workers : WF_connVars(part = "connection" /\ WorkerStep(w))
  /\ \A a \in Acceptors : WF_serverVars(part = "server" /\ AcceptorStep(a))
  /\ WF_serverVars(part = "server" /\ StopStep)
  /\ \A w \in PoolWorkers : WF_serverVars(part = "server" /\ WorkerExits(w))
  /\ \A c \in Callers : WF_forkVars(part = "fork" /\ ForkStep(c))
  /\ \A s \in Saves : WF_forkVars(part = "fork" /\ ChildExits(s))
  /\ WF_tierVars(part = "tiers" /\ MergerStep)

Spec == Init /\ [][Next]_threadVars /\ Fairness

(* The variables of every machinery keep their shape. *)
TypeOK == ConnTypeOK /\ ServerTypeOK /\ ForkTypeOK /\ TTypeOK /\ ClientTypeOK
=============================================================================
