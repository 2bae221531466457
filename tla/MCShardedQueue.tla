--------------------------- MODULE MCShardedQueue ---------------------------
(***************************************************************************)
(* Two daemons that ask for two shards.                                    *)
(***************************************************************************)
EXTENDS ShardedQueue, TLC

CONSTANTS d1, d2

BothShards == [d \in Daemon |-> Shard]

Daemons == Permutations(Daemon)
=============================================================================
