----------------------------- MODULE ShardServing -----------------------------
(***************************************************************************)
(* The replicas of the shards (query/shard_replica_service.py), the        *)
(* registry they announce themselves in (registry/local.py,                *)
(* registry/consul.py) and the choice of one replica of each shard         *)
(* (query/shard_discovery.py).                                             *)
(*                                                                         *)
(* A replica is a container: its hostname is its service id and its        *)
(* address, so a restarted container has the address of its last           *)
(* registration, and a container that is created anew is another replica.  *)
(* The registry may be out of reach at any time: a registration fails, a   *)
(* heartbeat is missed, whatever the interval.                             *)
(*                                                                         *)
(* What a replica loads is put by shard-index                              *)
(* (query/shard_index_pipeline.py) and downloaded object by object, and    *)
(* the marker with the version last by both, so that the two may overlap.  *)
(* As in IndexPublication an object is the set of the builds it was made   *)
(* from.  Here a build is published at once: between the marker that       *)
(* shard-index reads and the last of the files there may be builds, which  *)
(* gives it the same mixtures as one that is under way.                    *)
(***************************************************************************)
EXTENDS Integers, FiniteSetsExt, Functions

CONSTANTS
    Replica,    \* the replicas: numbers, which order the service ids
    ShardOf,    \* the shard of each
    Files,      \* the files of a shard
    Ttl,        \* the ticks a registration lives without a heartbeat
    BuiltAtFirst, \* the builds there are at first
    MaxBuilds,  \* bound on the builds
    MaxShardings, \* bound on the runs of shard-index
    MaxCrashes, \* bound on those that are interrupted
    MaxStarts   \* bound on the starts of a replica after its first

ASSUME ServingAssumption ==
    /\ Replica \subseteq Nat /\ IsFiniteSet(Replica)
    /\ ShardOf \in [Replica -> Nat]
    /\ {Files, Ttl, BuiltAtFirst, MaxBuilds, MaxShardings, MaxCrashes, MaxStarts} \subseteq Nat
    /\ Files > 0 /\ Ttl > 0 /\ BuiltAtFirst > 0

VARIABLES
    built,     \* the latest build
    shards,    \* under shard-index/: the builds of each file of each shard
    marker,    \* and the version of the marker
    sharding,  \* shard-index: step, the version and the builds of the files it has
               \* read, the files still to be put
    replica,   \* step, the next file and the builds of those it has, the version
               \* it announces, which start, and undisturbed (history);
               \* "alone" is a service whose subprocess, the server, has died
    registry,  \* service id :> version, start (history), ticks since a heartbeat
    settled,   \* history: the last put under shard-index/ is the marker of a run
               \* that no build came in between
    shardings, \* the runs of shard-index, and those that were interrupted
    crashes

published   == <<shards, marker, sharding, settled, shardings, crashes>>
servingVars == <<built, published, replica, registry>>

Shard       == Range(ShardOf)
FileKey     == Shard \X (1 .. Files)
Unversioned == 0
Loading(r)  == replica[r].step \in {"get", "marker"}
Running(r)  == replica[r].step # "down"
Answers(r)  == replica[r].step \in {"healthy", "up"}

IdleSharding == [step |-> "idle", version |-> Unversioned, has |-> {}, todo |-> {}]
NotStarted   == [step |-> "down", next |-> 1, has |-> {}, version |-> Unversioned,
                 start |-> 0, undisturbed |-> FALSE]

\* The first build has been sharded, by a shard-index with markers or without,
\* and is served.
ServingInit ==
    /\ built = BuiltAtFirst
    /\ shards = [k \in FileKey |-> {1}]
    /\ marker \in {Unversioned, 1}
    /\ sharding = IdleSharding
    /\ settled = TRUE
    /\ shardings = 0 /\ crashes = 0
    /\ replica = [r \in Replica |->
                    [step |-> "up", next |-> Files + 1, has |-> {1},
                     version |-> marker, start |-> 0, undisturbed |-> TRUE]]
    /\ registry = [r \in Replica |-> [version |-> marker, start |-> 0, age |-> 0]]

-----------------------------------------------------------------------------
\* build-index publishes another build.
BuildIndex ==
    /\ built < MaxBuilds
    /\ built' = built + 1
    /\ UNCHANGED <<published, replica, registry>>

\* shard-index reads the version marker of the source.
StartSharding ==
    /\ sharding = IdleSharding
    /\ shardings < MaxShardings
    /\ shardings' = shardings + 1
    /\ sharding' = [IdleSharding EXCEPT !.step = "get", !.version = built]
    /\ UNCHANGED <<built, shards, marker, settled, crashes, replica, registry>>

\* Then it has read its files, of any of the builds that were there meanwhile.
GetSource ==
    /\ sharding.step = "get"
    /\ \E has \in SUBSET (sharding.version .. built) :
          /\ built \in has
          /\ sharding' = [sharding EXCEPT !.step = "put", !.has = has,
                                         !.todo = FileKey]
    /\ UNCHANGED <<built, shards, marker, settled, shardings, crashes, replica, registry>>

\* History: the replicas that load while shard-index puts something.
Disturbed == [r \in Replica |->
                 IF Loading(r) THEN [replica[r] EXCEPT !.undisturbed = FALSE]
                               ELSE replica[r]]

\* It puts the files in the order of their names.
IsFirst(k, keys) ==
    \A j \in keys : k[1] < j[1] \/ (k[1] = j[1] /\ k[2] <= j[2])

PutShardFile ==
    /\ sharding.step = "put"
    /\ \E k \in sharding.todo :
          /\ IsFirst(k, sharding.todo)
          /\ shards' = [shards EXCEPT ![k] = sharding.has]
          /\ sharding' = [sharding EXCEPT !.todo = @ \ {k}]
    /\ settled' = FALSE
    /\ replica' = Disturbed
    /\ UNCHANGED <<built, marker, shardings, crashes, registry>>

\* The marker last.
PutMarker ==
    /\ sharding.step = "put"
    /\ sharding.todo = {}
    /\ marker' = sharding.version
    /\ sharding' = IdleSharding
    /\ settled' = (sharding.has = {sharding.version})
    /\ replica' = Disturbed
    /\ UNCHANGED <<built, shards, shardings, crashes, registry>>

\* shard-index dies, or an error ends it.
InterruptSharding ==
    /\ sharding # IdleSharding
    /\ crashes < MaxCrashes
    /\ crashes' = crashes + 1
    /\ sharding' = IdleSharding
    /\ UNCHANGED <<built, shards, marker, settled, shardings, replica, registry>>

-----------------------------------------------------------------------------
\* start, in a directory of its own.
StartReplica(r) ==
    /\ replica[r].step = "down"
    /\ replica[r].start < MaxStarts
    /\ replica' = [replica EXCEPT ![r] =
                     [NotStarted EXCEPT !.step = "get", !.start = replica[r].start + 1,
                                        !.undisturbed = settled]]
    /\ UNCHANGED <<built, published, registry>>

\* _download_shard, one of the files.
GetShardFile(r) ==
    /\ replica[r].step = "get"
    /\ replica' = [replica EXCEPT ![r].has = @ \cup shards[<<ShardOf[r], replica[r].next>>],
                                  ![r].next = @ + 1,
                                  ![r].step = IF replica[r].next = Files
                                              THEN "marker" ELSE "get"]
    /\ UNCHANGED <<built, published, registry>>

\* Mutant of ReadIndexVersion: the version is that of the latest build.
ReadIndexVersionLatest(r) ==
    /\ replica[r].step = "marker"
    /\ replica' = [replica EXCEPT ![r].version = built, ![r].step = "healthy"]
    /\ UNCHANGED <<built, published, registry>>

\* _read_index_version, without a marker None; then the subprocess is started
\* and, in the end, answers at its address.
ReadIndexVersion(r) ==
    /\ replica[r].step = "marker"
    /\ replica' = [replica EXCEPT ![r].version = marker, ![r].step = "healthy"]
    /\ UNCHANGED <<built, published, registry>>

\* The registry with an entry for r, in place of the one it may have had, and
\* without one.
Registered(r, age) ==
    [s \in DOMAIN registry \cup {r} |->
        IF s = r THEN [version |-> replica[r].version, start |-> replica[r].start,
                       age |-> age]
                 ELSE registry[s]]

Deregistered(r) == Restrict(registry, DOMAIN registry \ {r})

\* The process of r is gone, and its directory.
Stopped(r) == [replica EXCEPT ![r] = [NotStarted EXCEPT !.start = replica[r].start]]

\* _register, which replaces what is there.
Register(r) ==
    /\ replica[r].step = "healthy"
    /\ registry' = Registered(r, 0)
    /\ replica' = [replica EXCEPT ![r].step = "up"]
    /\ UNCHANGED <<built, published>>

\* A registration that fails ends the start and the subprocess.  Consul may
\* have taken the first of its two requests: the entry is then critical.
RegisterFails(r) ==
    /\ replica[r].step = "healthy"
    /\ registry' \in {registry, Registered(r, Ttl + 1)}
    /\ replica' = Stopped(r)
    /\ UNCHANGED <<built, published>>

\* _heartbeat_loop, which does not look at the subprocess.  Where there is no
\* entry the heartbeat fails, each time.
Heartbeat(r) ==
    /\ replica[r].step \in {"up", "alone"}
    /\ r \in DOMAIN registry /\ registry[r].age > 0
    /\ registry' = [registry EXCEPT ![r].age = 0]
    /\ UNCHANGED <<built, published, replica>>

\* shutdown: the registration first, where an error is ignored; then the
\* process, which answers in between as it does before.
Shutdown(r) ==
    /\ replica[r].step \in {"up", "alone"}
    /\ registry' \in {registry, Deregistered(r)}
    /\ replica' = Stopped(r)
    /\ UNCHANGED <<built, published>>

\* A death without notice, of the container (kill_process does the same).
Die(r) ==
    /\ Running(r)
    /\ replica' = Stopped(r)
    /\ UNCHANGED <<built, published, registry>>

\* The server dies and the service that started it lives: nothing waits for the
\* subprocess once the start is over.
ServerDies(r) ==
    /\ replica[r].step = "up"
    /\ replica' = [replica EXCEPT ![r].step = "alone"]
    /\ UNCHANGED <<built, published, registry>>

-----------------------------------------------------------------------------
\* The ticks since the last heartbeat, as far as discover tells them apart.
Aged(r) == IF registry[r].age > Ttl THEN Ttl + 1 ELSE registry[r].age + 1

\* A tick of the clock.
RegistryTick ==
    /\ registry' = [r \in DOMAIN registry |-> [registry[r] EXCEPT !.age = Aged(r)]]
    /\ UNCHANGED <<built, published, replica>>

\* An entry whose time is over is dropped: the registry in memory does so at
\* the next discover, Consul after a time.
Expire(r) ==
    /\ r \in DOMAIN registry /\ registry[r].age > Ttl
    /\ registry' = Deregistered(r)
    /\ UNCHANGED <<built, published, replica>>

-----------------------------------------------------------------------------
\* Mutant of Discover: the time of an entry is not looked at.
DiscoverAll == DOMAIN registry

\* discover
Discover == {r \in DOMAIN registry : registry[r].age <= Ttl}

\* choose_shard_instances: of the replicas of a shard the least service id.
Chosen == [s \in {ShardOf[r] : r \in Discover} |->
              Min({r \in Discover : ShardOf[r] = s})]

ServingStep ==
    \/ BuildIndex
    \/ StartSharding \/ GetSource \/ PutShardFile \/ PutMarker \/ InterruptSharding
    \/ \E r \in Replica : \/ StartReplica(r) \/ GetShardFile(r) \/ ReadIndexVersion(r)
                          \/ Register(r) \/ RegisterFails(r)
                          \/ Heartbeat(r) \/ Shutdown(r) \/ Die(r) \/ ServerDies(r)
                          \/ Expire(r)

ServingNext == ServingStep \/ RegistryTick

ServingSpec == ServingInit /\ [][ServingNext]_servingVars

\* Time passes, and the heartbeats of a replica that lives go on: in the end one
\* reaches the registry.  (A total timeout of the client of Consul is none of the
\* errors that the loop gets over: it would end it, and then the entry is dropped
\* in the end, and the replica is one without a registration.)
ServingFairness ==
    /\ WF_servingVars(RegistryTick)
    /\ \A r \in Replica : WF_servingVars(Heartbeat(r))

FairServingSpec == ServingSpec /\ ServingFairness

-----------------------------------------------------------------------------
\* What a replica that registers can be relied on for.  Only one that is not yet
\* up can be at the address of another's registration: once it has registered,
\* it has replaced that of its last start.  And the version it announces is that
\* of every file it has loaded, if it has one and loaded what a whole run of
\* shard-index had left, whatever was left half done before, and whatever is
\* built, sharded and restarted after; nothing is compared, so that nothing of
\* the kind holds of a replica that shard-index disturbed.
RegistryIsTrue ==
    \A r \in DOMAIN registry :
        /\ registry[r].start <= replica[r].start
        /\ replica[r].step \in {"up", "alone"} =>
             /\ registry[r].start = replica[r].start
             /\ replica[r].undisturbed => \/ registry[r].version = Unversioned
                                         \/ replica[r].has = {registry[r].version}

\* What ARCHITECTURE.md says of the replicas, and is not so: they announce the
\* build that they are serving.
AnnouncedIsServed ==
    \A r \in DOMAIN registry :
        replica[r].step \in {"up", "alone"} /\ registry[r].version # Unversioned
            => replica[r].has = {registry[r].version}

HasLive(s) == \E r \in DOMAIN registry : ShardOf[r] = s /\ replica[r].step = "up"
HasLone(s) == \E r \in Replica : ShardOf[r] = s /\ replica[r].step = "alone"

\* Failover: as long as one replica of a shard lives and has its registration,
\* whatever dies beside it, the shard is, again and again, searched at a replica
\* that answers; unless a service outlives its server.
Failover ==
    \A s \in Shard :
        <>[](HasLive(s) /\ ~HasLone(s))
            => []<>(s \in DOMAIN Chosen /\ Answers(Chosen[s]))

\* What ARCHITECTURE.md says the time to live is for: a shard that dies without
\* warning does not appear alive for ever.
DeadAreForgotten ==
    \A r \in Replica : ~Answers(r) ~> r \notin Discover \/ Answers(r)
=============================================================================
