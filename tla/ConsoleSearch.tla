----------------------------- MODULE ConsoleSearch -----------------------------
(***************************************************************************)
(* GET /api/v1/search (console/routes/search.py) at the replicas of the    *)
(* console: the snapshot of the cluster and what of it may be searched     *)
(* (console/cluster_search.py), the cache (console/cache.py) and the       *)
(* fan-out, interleaved with the shard replicas and the registry.  In the  *)
(* cache an answer may be dropped for another, which is so of the store in *)
(* memory; Redis, which is the one that replicas share, has no limit.      *)
(*                                                                         *)
(* There is one query, with a term to search for.  What a shard answers is *)
(* determined by the build its replica has loaded, so the answer stands    *)
(* for its parts: of each shard that answered, the build.  Ranking and     *)
(* snippets (console/snippets.py) are left out.                            *)
(***************************************************************************)
EXTENDS ShardServing, CacheStore

CONSTANTS
    Api,        \* the replicas of the console
    CacheTtl,   \* the ticks an answer lives in the cache
    MaxEntries  \* the answers the cache holds

ASSUME ConsoleAssumption ==
    {CacheTtl, MaxEntries} \subseteq Nat /\ CacheTtl > 0 /\ MaxEntries > 0

VARIABLES
    version, \* the index version each replica of the console has loaded
    search,  \* the search under way at each: step, the targets still to be asked,
             \* the parts of the answer, whether there is a key for the cache
    cache    \* answers, by index version

vars == <<servingVars, version, search, cache>>

Idle == [step |-> "idle", targets |-> <<>>, parts |-> <<>>, keyed |-> FALSE]

Init ==
    /\ ServingInit
    /\ version = [a \in Api |-> 1]
    /\ search = [a \in Api |-> Idle]
    /\ cache = <<>>

-----------------------------------------------------------------------------
\* A replica of the console is replaced by one that loads the latest index.
RestartApi(a) ==
    /\ version[a] # built
    /\ version' = [version EXCEPT ![a] = built]
    /\ search' = [search EXCEPT ![a] = Idle]
    /\ UNCHANGED <<servingVars, cache>>

Announced(s) == registry[Chosen[s]].version
Target(s)    == [replica |-> Chosen[s], version |-> Announced(s),
                 start |-> registry[Chosen[s]].start]

\* snapshot: the shards whose chosen replica announces no other version.
Coherent(a) == {s \in DOMAIN Chosen : Announced(s) \in {version[a], Unversioned}}

\* Mutant of Cacheable: a shard without a version is taken for verified.
CacheableUnverified(a) == Coherent(a) = Shard

\* cacheable, and the cluster complete.
Cacheable(a) == /\ \A s \in DOMAIN Chosen : Announced(s) = version[a]
                /\ Coherent(a) = Shard

\* Discovery, at the start of a search.  Without targets the answer is that no
\* shard is there; when the registry is out of reach the request fails.
Snapshot(a) ==
    /\ search[a].step = "idle"
    /\ Coherent(a) # {}
    /\ search' = [search EXCEPT ![a] =
         [Idle EXCEPT !.step    = IF Cacheable(a) THEN "lookup" ELSE "ask",
                      !.targets = [s \in Coherent(a) |-> Target(s)],
                      !.keyed   = Cacheable(a)]]
    /\ UNCHANGED <<servingVars, version, cache>>

\* cache.get: an answer that is found ends the search; an error of the cache,
\* or an entry that is not readable, is as good as none.
LookUp(a) ==
    /\ search[a].step = "lookup"
    /\ \/ /\ version[a] \in Live(cache)
          /\ search' = [search EXCEPT ![a] = Idle]
       \/ search' = [search EXCEPT ![a].step = "ask"]
    /\ cache' = AfterGet(cache, version[a])
    /\ UNCHANGED <<servingVars, version>>

\* An answer with the part of one more shard.
Placing(parts, s, part) ==
    [q \in DOMAIN parts \cup {s} |-> IF q = s THEN part ELSE parts[q]]

\* The fan-out: of each target the answer of the process that is now at its
\* address, or an error or a timeout.  As history: whether it is of the version
\* searched, and if not, whether its process is another than the one the snapshot
\* saw, or was disturbed by shard-index when it loaded.
Ask(a, s) ==
    /\ search[a].step = "ask"
    /\ s \in DOMAIN search[a].targets
    /\ LET t     == search[a].targets[s]
           now   == replica[t.replica]
           exact == now.has = {version[a]}
           seen  == now.start = t.start /\ now.undisturbed
           part  == [exact |-> exact, excused |-> ~exact /\ ~seen,
                     unverified |-> t.version = Unversioned]
           rest  == Restrict(search[a].targets, DOMAIN search[a].targets \ {s})
       IN  \/ /\ Answers(t.replica)
              /\ search' = [search EXCEPT ![a].targets = rest,
                                          ![a].parts = Placing(@, s, part)]
           \/ search' = [search EXCEPT ![a].targets = rest]
    /\ UNCHANGED <<servingVars, version, cache>>

\* _compose_shard_statuses: every shard of the cluster is expected to answer.
Degraded(a) == DOMAIN search[a].parts # Shard

\* The answer is composed: it is to be stored if it has a key and is not degraded.
Finish(a) ==
    /\ search[a].step = "ask"
    /\ search[a].targets = <<>>
    /\ \/ /\ search[a].keyed /\ ~Degraded(a)
          /\ search' = [search EXCEPT ![a].step = "store"]
       \/ /\ ~search[a].keyed \/ Degraded(a)
          /\ search' = [search EXCEPT ![a] = Idle]
    /\ UNCHANGED <<servingVars, version, cache>>

\* cache.set, of which an error is ignored.
Store(a) ==
    /\ search[a].step = "store"
    /\ \/ cache' = AfterSet(cache, version[a],
                            search[a].parts, CacheTtl, MaxEntries)
       \/ UNCHANGED cache
    /\ search' = [search EXCEPT ![a] = Idle]
    /\ UNCHANGED <<servingVars, version>>

\* Time passes for the registrations and for the answers in the cache.
Tick ==
    /\ RegistryTick
    /\ cache' = Older(cache)
    /\ UNCHANGED <<version, search>>

SearchStep(a) ==
    \/ Snapshot(a) \/ LookUp(a) \/ Finish(a) \/ Store(a)
    \/ \E s \in Shard : Ask(a, s)

Next ==
    \/ ServingStep /\ UNCHANGED <<version, search, cache>>
    \/ Tick
    \/ \E a \in Api : RestartApi(a) \/ SearchStep(a)

Spec == Init /\ [][Next]_vars

-----------------------------------------------------------------------------
\* What the consoles cache is bounded, where the store is, and has in an answer
\* every shard of the cluster, each announced with the version in the key: it
\* does not matter what died, was stopped or expired since, or answered nothing.
\* Each is of that version too, if the process that answered is the one the
\* snapshot saw and shard-index did not disturb it; otherwise it may be of any.
CachedIsComplete ==
    /\ Cardinality(DOMAIN cache) <= MaxEntries
    /\ \A v \in DOMAIN cache :
         LET parts == cache[v].value
         IN  /\ DOMAIN parts = Shard
             /\ \A s \in Shard : /\ ~parts[s].unverified
                                 /\ (parts[s].exact \/ parts[s].excused)

\* What console/cluster_search.py says, and is not so: no documents of another
\* build are mixed into an answer, unless the shard announces no version.
NoForeignResults ==
    \A a \in Api : \A s \in DOMAIN search[a].parts :
        LET part == search[a].parts[s]
        IN  part.exact \/ part.unverified
=============================================================================
