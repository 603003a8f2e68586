------------------------------ MODULE CacheStore ------------------------------
(***************************************************************************)
(* InMemoryCacheStore (cache/memory.py) as operators on its dict: the      *)
(* entries by key, each with its value, the ticks it has left to live (0   *)
(* is expired), and its place in the dict, which is 0 for the least        *)
(* recently used.  Redis (cache/redis_cache.py) does the same without a    *)
(* limit.                                                                  *)
(***************************************************************************)
EXTENDS Integers, FiniteSets

\* The keys whose entry lives.
Live(entries) == {k \in DOMAIN entries : entries[k].left > 0}

\* What is left when no keys stay but these.
Keep(entries, keys) ==
    [k \in keys |-> [entries[k] EXCEPT !.place =
        Cardinality({j \in keys : entries[j].place < entries[k].place})]]

\* get: an expired entry goes, one that lives becomes the latest used.
AfterGet(entries, key) ==
    IF key \in Live(entries)
    THEN Keep([entries EXCEPT ![key].place = Cardinality(DOMAIN entries)],
              DOMAIN entries)
    ELSE Keep(entries, DOMAIN entries \ {key})

\* _evict_if_needed: what has expired first, then the least recently used.
Later(entries, keys, k) == {j \in keys : entries[j].place > entries[k].place}

Evict(entries, max) ==
    Keep(entries,
         IF Cardinality(DOMAIN entries) <= max THEN DOMAIN entries
         ELSE {k \in Live(entries) :
                  Cardinality(Later(entries, Live(entries), k)) < max})

\* set
AfterSet(entries, key, value, ttl, max) ==
    Evict([k \in DOMAIN entries \cup {key} |->
              IF k = key THEN [value |-> value, left |-> ttl,
                               place |-> Cardinality(DOMAIN entries)]
                         ELSE entries[k]],
          max)

\* The clock advances.
Older(entries) ==
    [k \in DOMAIN entries |->
        [entries[k] EXCEPT !.left = IF @ = 0 THEN 0 ELSE @ - 1]]
=============================================================================
