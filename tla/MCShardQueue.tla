---------------------------- MODULE MCShardQueue ----------------------------
(* Small instances of ShardQueue for TLC. *)
EXTENDS ShardQueue, TLC

\* Workers and shards are interchangeable: no action or invariant names one.
Symmetry == Permutations(Workers) \cup Permutations(Shards)
=============================================================================
