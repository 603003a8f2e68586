--------------------------- MODULE MCConsoleSearch ---------------------------
(* Two shards, of one replica each.                                        *)
EXTENDS ConsoleSearch

MCReplica == 1 .. 2
MCShardOf == <<0, 1>>
=============================================================================
