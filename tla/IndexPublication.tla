--------------------------- MODULE IndexPublication ---------------------------
(***************************************************************************)
(* How a batch index gets from the job that builds it to the processes     *)
(* that serve it: the uploads of build-index (index/pipeline.py), of       *)
(* compute-pagerank (pagerank/pipeline.py) and of shard-index              *)
(* (query/shard_index_pipeline.py), and the downloads of a shard replica   *)
(* (query/shard_replica_service.py) and of the console                     *)
(* (console/artifacts.py), object by object.  Objects are overwritten in   *)
(* place; what ties them together is the version in the markers and in     *)
(* the corpus catalog.                                                     *)
(*                                                                         *)
(* An object is the set of the builds it was made from; what the version   *)
(* of a build hashes is IndexBuild.  Builds have different corpora, and so *)
(* different versions.  One replica of one shard loads; the model of the   *)
(* ranking is left out, because it belongs to no build.                    *)
(***************************************************************************)
EXTENDS ObjectStorage, Integers, SequencesExt

CONSTANTS
    File,        \* the files of an index, in the order of their upload: the
                 \* documents, which compute-pagerank reads, and others
    MaxBuilds,   \* bound on the builds of a behaviour
    MaxRanks,    \* bound on the runs of compute-pagerank
    MaxShardings, \* bound on the runs of shard-index
    MaxCrashes   \* bound on the jobs that are interrupted

ASSUME PublicationAssumption ==
    /\ File \in Seq(STRING) /\ "documents" \in ToSet(File)
    /\ ToSet(File) \cap {"corpus", "catalog", "marker", "cluster_manifest"} = {}
    /\ {MaxBuilds, MaxRanks, MaxShardings, MaxCrashes} \subseteq Nat

VARIABLES
    objects,   \* the bucket
    building,  \* the next put of build-index, 0 if it does not run
    sharding,  \* shard-index: step, the version and the files it has
    ranking,   \* compute-pagerank: the documents it has got
    console,   \* a console: step, and what it has downloaded
    replica,   \* a shard replica, likewise
    \* history
    builds, ranks, shardings, crashes,
    torn,      \* a build has put index files, and no build its catalog since
    orderly    \* jobs and downloads have not overlapped, nor been interrupted

jobs    == <<building, sharding, ranking>>
readers == <<console, replica>>
counts  == <<builds, ranks, shardings, crashes>>
vars    == <<objects, jobs, readers, counts, torn, orderly>>

IndexKeys    == [i \in DOMAIN File |-> <<"search-index", File[i]>>]
SourceKeys   == [i \in DOMAIN File |-> <<"search-index-compressed", File[i]>>]
ShardKeys    == [i \in DOMAIN File |-> <<"shard-index", File[i]>>]
Documents    == <<"search-index", "documents">>
Corpus       == <<"search-index", "corpus">>
Catalog      == <<"search-index", "catalog">>
IndexMarker  == <<"search-index", "marker">>
SourceMarker == <<"search-index-compressed", "marker">>
Manifest     == <<"shard-index", "cluster_manifest">>
ShardMarker  == <<"shard-index", "marker">>
Scores       == <<"pagerank", "scores">>

\* Mutant of BuildPlan: no marker beside the uncompressed index.
BuildPlanNoMarker ==
    IndexKeys \o <<Corpus, Catalog>> \o SourceKeys \o <<SourceMarker>>

\* What build-index uploads, in this order.
BuildPlan ==
    IndexKeys \o <<Corpus, Catalog, IndexMarker>>
                   \o SourceKeys \o <<SourceMarker>>

\* What shard-index uploads: the directory in the order of the names, and the
\* marker.
ShardPlan == <<Manifest>> \o ShardKeys \o <<ShardMarker>>

IdleSharding == [step |-> "idle", version |-> {}, todo |-> <<>>, has |-> {}]
Down         == [step |-> "down", version |-> {}, todo |-> <<>>, has |-> {},
                 scores |-> {}, torn |-> FALSE]
NoReplica    == [step |-> "down", version |-> {}, todo |-> {}, has |-> {}]

Init ==
    /\ objects = NoObjects
    /\ building = 0 /\ sharding = IdleSharding /\ ranking = {}
    /\ console = Down /\ replica = NoReplica
    /\ builds = 0 /\ ranks = 0 /\ shardings = 0 /\ crashes = 0
    /\ torn = FALSE /\ orderly = TRUE

-----------------------------------------------------------------------------
Loading(reader) == reader.step \notin {"down", "up"}
JobsAreIdle     == building = 0 /\ sharding = IdleSharding /\ ranking = {}
NobodyLoads     == ~Loading(console) /\ ~Loading(replica)

\* History: a job is started beside nothing else, a download beside no job.
JobBegins      == orderly' = (orderly /\ JobsAreIdle /\ NobodyLoads)
DownloadBegins == orderly' = (orderly /\ JobsAreIdle)

\* build-index has its index and begins to upload.
StartBuild ==
    /\ building = 0
    /\ builds < MaxBuilds
    /\ builds' = builds + 1
    /\ building' = 1
    /\ JobBegins
    /\ UNCHANGED <<objects, sharding, ranking, readers, ranks, shardings, crashes, torn>>

PutBuild ==
    /\ building # 0
    /\ objects' = PutObject(objects, BuildPlan[building], {builds})
    /\ building' = IF building = Len(BuildPlan) THEN 0 ELSE building + 1
    /\ torn' = CASE BuildPlan[building] = Catalog         -> FALSE
                 [] BuildPlan[building] \in ToSet(IndexKeys) -> TRUE
                 [] OTHER                                 -> torn
    /\ UNCHANGED <<sharding, ranking, readers, counts, orderly>>

\* compute-pagerank gets the documents of the index, and puts their scores.
StartRank ==
    /\ ranking = {}
    /\ ranks < MaxRanks
    /\ Documents \in DOMAIN objects
    /\ ranks' = ranks + 1
    /\ ranking' = objects[Documents]
    /\ JobBegins
    /\ UNCHANGED <<objects, building, sharding, readers, builds, shardings, crashes, torn>>

PutScores ==
    /\ ranking # {}
    /\ objects' = PutObject(objects, Scores, ranking)
    /\ ranking' = {}
    /\ UNCHANGED <<building, sharding, readers, counts, torn, orderly>>

\* shard-index: the marker of the source, which must be there; then its files,
\* whose names are the same in every build.
StartSharding ==
    /\ sharding = IdleSharding
    /\ shardings < MaxShardings
    /\ SourceMarker \in DOMAIN objects
    /\ shardings' = shardings + 1
    /\ sharding' = [step |-> "get", version |-> objects[SourceMarker],
                    todo |-> SourceKeys, has |-> {}]
    /\ JobBegins
    /\ UNCHANGED <<objects, building, ranking, readers, builds, ranks, crashes, torn>>

\* partition_index splits what was downloaded; files of different builds may
\* make it fail.
GetSource ==
    /\ sharding.step = "get"
    /\ LET has == sharding.has \cup objects[Head(sharding.todo)]
           got == [sharding EXCEPT !.has = has, !.todo = Tail(@)]
       IN  \/ /\ got.todo # <<>>
              /\ sharding' = got
           \/ /\ got.todo = <<>>
              /\ sharding' = [got EXCEPT !.step = "put", !.todo = ShardPlan]
           \/ /\ got.todo = <<>> /\ Cardinality(has) > 1
              /\ sharding' = IdleSharding
    /\ UNCHANGED <<objects, building, ranking, readers, counts, torn, orderly>>

PutShard ==
    /\ sharding.step = "put"
    /\ LET key == Head(sharding.todo)
       IN  objects' = PutObject(objects, key, IF key = ShardMarker
                                              THEN sharding.version
                                              ELSE sharding.has)
    /\ sharding' = IF Len(sharding.todo) = 1 THEN IdleSharding
                   ELSE [sharding EXCEPT !.todo = Tail(@)]
    /\ UNCHANGED <<building, ranking, readers, counts, torn, orderly>>

\* A job dies, or an error of the storage ends it.
Interrupt ==
    /\ crashes < MaxCrashes
    /\ crashes' = crashes + 1
    /\ orderly' = FALSE
    /\ \/ building # 0 /\ building' = 0 /\ UNCHANGED <<sharding, ranking>>
       \/ ranking # {} /\ ranking' = {} /\ UNCHANGED <<building, sharding>>
       \/ /\ sharding # IdleSharding
          /\ sharding' = IdleSharding
          /\ UNCHANGED <<building, ranking>>
    /\ UNCHANGED <<objects, readers, builds, ranks, shardings, torn>>

-----------------------------------------------------------------------------
\* ShardReplicaService.start: the files of the shard, of which there must be
\* some; a replica without them is restarted until there are.  It gets those
\* that the storage lists, in the order of the storage.
StartReplica ==
    /\ replica.step = "down"
    /\ ToSet(ShardKeys) \cap DOMAIN objects # {}
    /\ replica' = [NoReplica EXCEPT !.step = "get",
                       !.todo = ToSet(ShardKeys) \cap DOMAIN objects]
    /\ DownloadBegins
    /\ UNCHANGED <<objects, jobs, console, counts, torn>>

GetShardFile ==
    /\ replica.step = "get"
    /\ \E key \in replica.todo :
          replica' = [replica EXCEPT !.has = @ \cup objects[key],
                                     !.todo = @ \ {key},
                                     !.step = IF replica.todo = {key}
                                              THEN "marker" ELSE "get"]
    /\ UNCHANGED <<objects, jobs, console, counts, torn, orderly>>

\* Mutant of GetShardMarker: the marker of the index that shard-index read.
GetShardMarkerOfSource ==
    /\ replica.step = "marker"
    /\ replica' = [replica EXCEPT !.step = "up", !.version = objects[SourceMarker]]
    /\ UNCHANGED <<objects, jobs, console, counts, torn, orderly>>

\* _read_index_version: what the replica will announce; {} is None.
GetShardMarker ==
    /\ replica.step = "marker"
    /\ replica' = [replica EXCEPT !.step = "up",
                       !.version = IF ShardMarker \in DOMAIN objects
                                   THEN objects[ShardMarker] ELSE {}]
    /\ UNCHANGED <<objects, jobs, console, counts, torn, orderly>>

-----------------------------------------------------------------------------
\* download_console_artifacts.  The marker first.
StartConsole ==
    /\ console.step = "down"
    /\ IndexMarker \in DOMAIN objects
    /\ console' = [Down EXCEPT !.step = "index", !.version = objects[IndexMarker],
                               !.todo = IndexKeys]
    /\ DownloadBegins
    /\ UNCHANGED <<objects, jobs, replica, counts, torn>>

GetIndexFile ==
    /\ console.step = "index"
    /\ console' = [console EXCEPT !.has = @ \cup objects[Head(console.todo)],
                                  !.todo = Tail(@),
                                  !.step = IF Len(console.todo) = 1
                                           THEN "scores" ELSE "index"]
    /\ UNCHANGED <<objects, jobs, replica, counts, torn, orderly>>

\* Without scores the console does not start.
GetScores ==
    /\ console.step = "scores"
    /\ console' = IF Scores \in DOMAIN objects
                  THEN [console EXCEPT !.step = "catalog", !.scores = objects[Scores]]
                  ELSE Down
    /\ UNCHANGED <<objects, jobs, replica, counts, torn, orderly>>

\* Mutant of CheckCatalog: any catalog will do.
CheckCatalogAny ==
    /\ console.step = "catalog"
    /\ console' = IF Catalog \in DOMAIN objects
                  THEN [console EXCEPT !.step = "cluster", !.torn = torn]
                  ELSE Down
    /\ UNCHANGED <<objects, jobs, replica, counts, torn, orderly>>

\* The catalog must be of the version of the marker.  (torn is history.)
CheckCatalog ==
    /\ console.step = "catalog"
    /\ console' = IF Catalog \in DOMAIN objects /\ objects[Catalog] = console.version
                  THEN [console EXCEPT !.step = "cluster", !.torn = torn]
                  ELSE Down
    /\ UNCHANGED <<objects, jobs, replica, counts, torn, orderly>>

\* The manifest of the cluster must be there; the marker of the shards, which
\* is read last, only gives a warning.
GetManifest ==
    /\ console.step = "cluster"
    /\ console' = IF Manifest \in DOMAIN objects
                  THEN [console EXCEPT !.step = "up"] ELSE Down
    /\ UNCHANGED <<objects, jobs, replica, counts, torn, orderly>>

\* A process that serves is stopped, to be started again.
StopConsole ==
    /\ console.step = "up"
    /\ console' = Down
    /\ UNCHANGED <<objects, jobs, replica, counts, torn, orderly>>

StopReplica ==
    /\ replica.step = "up"
    /\ replica' = NoReplica
    /\ UNCHANGED <<objects, jobs, console, counts, torn, orderly>>

-----------------------------------------------------------------------------
JobStep     == PutBuild \/ PutScores \/ GetSource \/ PutShard
ReplicaStep == StartReplica \/ GetShardFile \/ GetShardMarker
ConsoleStep == \/ StartConsole \/ GetIndexFile \/ GetScores \/ CheckCatalog
               \/ GetManifest

Next ==
    \/ StartBuild \/ StartRank \/ StartSharding \/ JobStep \/ Interrupt
    \/ ReplicaStep \/ StopReplica
    \/ ConsoleStep \/ StopConsole

Spec == Init /\ [][Next]_vars

\* A job that was started runs to its end, and the console, which the
\* supervisor starts again after every failed start, goes on.
Fairness ==
    /\ WF_vars(PutBuild) /\ WF_vars(PutScores)
    /\ WF_vars(GetSource) /\ WF_vars(PutShard)
    /\ WF_vars(ConsoleStep)

FairSpec == Spec /\ Fairness

-----------------------------------------------------------------------------
\* What the marker, read first, and the catalog, written after the index and
\* compared last, are worth: a console that comes up although jobs ran while
\* it downloaded has one index, the one of its version, unless a build had
\* begun to replace the index, and had not put its catalog, when the console
\* compared it.
AcceptedIsWhole ==
    console.step = "up" /\ ~console.torn => console.has = console.version

\* When jobs and downloads neither overlap nor fail, a replica announces what
\* it serves, and the console has the index and the catalog of one build.
OrderlyIsWhole ==
    orderly =>
        /\ replica.step = "up" => replica.has = replica.version
        /\ console.step = "up" => console.has = console.version

\* Once everything has been published a first time a console comes up, unless
\* an interrupted build left a marker and a catalog that differ.
ConsoleComesUp ==
    Scores \in DOMAIN objects /\ ShardMarker \in DOMAIN objects
        ~> console.step = "up" \/ crashes > 0

\* What console/artifacts.py says: it never serves over mixed artefacts.
NeverMixed == console.step = "up" => console.has = console.version

\* What ARCHITECTURE.md says of the replicas: they announce the build that
\* they are serving.
AnnouncedIsServed ==
    replica.step = "up" /\ replica.version # {} => replica.has = replica.version
=============================================================================
