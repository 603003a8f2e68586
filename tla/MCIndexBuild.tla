---------------------------- MODULE MCIndexBuild ----------------------------
(* Two containers, whose replacements sort after both of them, and pages   *)
(* that yield a document and one that does not.                            *)
EXTENDS IndexBuild

CONSTANTS w1, w2, p1, p2, q, t, u

MCKeyOrder == <<<<w1, 0>>, <<w2, 0>>, <<w1, 1>>, <<w2, 1>>>>

MCTermsOf == (p1 :> {t, u}) @@ (p2 :> {t}) @@ (q :> {})
=============================================================================
