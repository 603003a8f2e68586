----------------------------- MODULE MCLinkGraph -----------------------------
(* Two workers, two others who write, and pages of one and of two blocks.  *)
EXTENDS LinkGraph

CONSTANTS r1, r2, v, w, k1, k2

MCKeyOrder == <<k1, k2>>
MCContent  == {[body |-> <<"head", "tail">>, type |-> "html"],
               [body |-> <<"whole">>, type |-> "json"]}
Symmetry   == Permutations({r1, r2}) \cup Permutations({v, w})
=============================================================================
