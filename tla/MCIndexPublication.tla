------------------------- MODULE MCIndexPublication -------------------------
(* An index of two files.                                                  *)
EXTENDS IndexPublication

MCFile == <<"documents", "postings">>
=============================================================================
