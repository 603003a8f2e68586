--------------------------- MODULE MCRateLimiter ----------------------------
(* Two workers whose clocks differ by one tick.                            *)
EXTENDS RateLimiter

CONSTANTS w1, w2

MCSkew == [w \in Worker |-> IF w = w2 THEN 1 ELSE 0]
=============================================================================
