----------------------------- MODULE MCRecovery -----------------------------
(* The durable server on small instances. *)
EXTENDS Recovery

\* The names of automatic snapshots are interchangeable: the model orders the
\* files by byAge alone.
AutoSymmetry == Permutations(AutoPaths)
=============================================================================
