--------------------------- MODULE LeaseSemaphore ---------------------------
(***************************************************************************)
(* What a rate limiter promises about concurrency, as its in-memory double *)
(* keeps the promise in one critical section                               *)
(* (crawl/rate_limiter.py, InMemoryCoordinatedRateLimiter): a set of lease *)
(* tokens that grows by one token at a time, and only below the limit.     *)
(* RateLimiter implements it over Redis.                                   *)
(***************************************************************************)
EXTENDS FiniteSets, Naturals

CONSTANTS Token, Max

VARIABLE active

Init == active = {}

\* acquire: stale leases go, and the token enters if there is room left.
Acquire(token, stale) ==
    /\ token \notin active
    /\ Cardinality(active \ stale) < Max
    /\ active' = (active \ stale) \cup {token}

\* The leases a failed attempt cleans up, or the one that release returns.
Drop(tokens) == active' = active \ tokens

Next ==
    \E tokens \in SUBSET active :
        Drop(tokens) \/ \E token \in Token : Acquire(token, tokens)

Spec == Init /\ [][Next]_active
=============================================================================
