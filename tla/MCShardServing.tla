---------------------------- MODULE MCShardServing ----------------------------
(* Two replicas of one shard.                                               *)
EXTENDS ShardServing

MCReplica == 1 .. 2
MCShardOf == <<0, 0>>
=============================================================================
