-------------------------- MODULE MCExtractWorker ---------------------------
(* Two containers, and pages of both kinds.                                *)
EXTENDS ExtractWorker

CONSTANTS w1, w2, p1, p2, q
=============================================================================
