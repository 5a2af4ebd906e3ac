---------------------------- MODULE MCStructures ----------------------------
(***************************************************************************)
(* Structures behind a lock of their own, each on a small instance: the     *)
(* write-ahead log over its life, the codec of its records, the similarity  *)
(* cache, the snapshot file and the runtime variables.  They share no state *)
(* (module Recovery has what relates the log to the snapshots), so a        *)
(* behaviour is about one of them: part says which, and the others stay as  *)
(* they were initially.                                                     *)
(***************************************************************************)
EXTENDS WalLifecycle, SimilarityCache, WalCodec, SnapshotFile, RuntimeVariables

VARIABLE part

StructuresInit ==
  /\ part \in {"log", "cache", "file", "codec", "variables"}
  /\ Init /\ SimInit /\ FileInit /\ CodecInit /\ VariablesInit
  /\ part # "log" => sync_on_write
  /\ part # "cache" => enabled

StructuresNext ==
  \/ /\ part = "log" /\ Next
     /\ UNCHANGED <<part, simVars, fileVars, codecVars, variableVars>>
  \/ /\ part = "cache" /\ SimNext
     /\ UNCHANGED <<part, vars, fileVars, codecVars, variableVars>>
  \/ /\ part = "file" /\ FileNext
     /\ UNCHANGED <<part, vars, simVars, codecVars, variableVars>>
  \/ /\ part = "codec" /\ CodecNext
     /\ UNCHANGED <<part, vars, simVars, fileVars, variableVars>>
  \/ /\ part = "variables" /\ VariablesNext
     /\ UNCHANGED <<part, vars, simVars, fileVars, codecVars>>

StructuresSpec == StructuresInit /\ [][StructuresNext]_<<part, vars, simVars, fileVars, codecVars, variableVars>>

\* Lists with a repetition, and with more items than an entry tracks.
SomeLists == {<<"x">>, <<"y", "y", "x", "z">>}

-----------------------------------------------------------------------------
(* Commands to encode: empty and short strings, numbers of either sign, no  *)
(* metadata, empty metadata, every type of value, two entries.              *)

Strings == {<<>>, <<3, 0>>}
MetaValues ==
  {[type |-> "string", held |-> <<3, 0>>], [type |-> "int64", held |-> -1], [type |-> "int64", held |-> 5],
   [type |-> "double", held |-> 300], [type |-> "bool", held |-> 0]}
Metadata ==
  {<<>>, <<[key |-> <<1>>, value |-> [type |-> "bool", held |-> 1]], [key |-> <<>>, value |-> [type |-> "string", held |-> <<>>]]>>}
    \cup {<<[key |-> k, value |-> v]>> : k \in Strings, v \in MetaValues}
SomeCommands ==
  [type : {"event"}, event_type : {"ADD", "SET", "DEL"}, ctx : Strings, id : Strings, score : {-2, 3}, timestamp : {0, 70}]
  \cup [type : {"vecset"}, id : Strings, vector : {<<>>, <<0, 255>>}, metadata : {<<>>} \cup {<<m>> : m \in Metadata}]
  \cup [type : {"vecdel"}, id : Strings]
  \cup [type : {"metaset"}, id : Strings, metadata : {<<>>}, filter_expr : Strings]
  \cup [type : {"metaset"}, id : Strings, metadata : {<<m>> : m \in Metadata}, filter_expr : {<<>>}]
=============================================================================
