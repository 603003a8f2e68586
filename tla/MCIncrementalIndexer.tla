------------------------ MODULE MCIncrementalIndexer ------------------------
(* Two URLs, each upserted and deleted at will.                            *)
EXTENDS IncrementalIndexer

CONSTANTS a, b
=============================================================================
