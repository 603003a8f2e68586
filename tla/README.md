# A TLA+ model of Beacon Search Engine at Scale

These modules specify the distributed core of the search engine: how workers
share a crawl, how they share the rate limit of a site, how what they extract
becomes part files, how a batch build turns those into an index and publishes
it, how one indexer turns a stream of updates into snapshots that readers
download while it goes on, and how the console finds the replicas of the shards
and caches what they answer. TLC checks every module on small instances; TLAPS
proves the invariants that matter most for every value of the constants.

Paths below are relative to `src/src/beacon_scale_infra/` unless they begin
with `src/`.

## The system

Processes meet in four services: a message queue (Redis Streams), an object
storage (S3), a coordination store (Redis) and a service registry (Consul). Each
service has a local double for development. Only the console calls another
process, the replicas of the shards.

    seeds --> frontier stream --> crawl workers --> pages in storage
                   ^                 |      \--> extract stream --> extract workers
                   '---- outlinks ---'                                |        |
                                                    part files + fragments   update stream
                                                                |               |
                                     build-index (batch)  <-----'        incremental indexer
                                          |                                     |
                        shard-index, PageRank, console artefacts        snapshots in storage
                                          |                                     |
                             shard replicas + registry --> console        bundle exporter

### Inventory

| Part | State | Operations | What is hard | What makes it correct |
|---|---|---|---|---|
| Message queue, `queue/` | log, cursor and pending list of a group | publish, consume, ack | delivery after a crash | a message goes to one consumer; unconfirmed ones stay visible |
| Object storage, `storage/` | key to body | put, get, delete, list | no transaction over two keys; in a local directory a put is two writes in place, and a list looks at one file after another | what nobody writes meanwhile is there, whole, and as it was put |
| Crawl, `crawl/worker.py`, `crawl/dedup.py` | frontier, claimed set, pages; per worker a batch, counters | seed, poll, claim, fetch, store, announce, publish links, ack | claims race; a worker may die between any two calls; idle shutdown while others produce | one request per page; nothing lost without a trace; the crawl ends and drains |
| Rate limit, `crawl/rate_limiter.py` | gate key, sorted set of leases | acquire, release | optimistic transaction, time, clock skew, dead holders, a gate that is polled without a queue | bounded concurrency; the domain never stays closed |
| Extraction, `extract/` | parts, fragments, buffers, part number | process, flush, finish | confirmation before the flush; a flush is many writes; identity after a restart | nothing twice, nothing overwritten, exact fragments |
| Incremental indexer, `incremental/indexer.py` | segments on a volume, texts, batch | open, collect, apply, publish, confirm | crash between any two writes; the volume may be lost | confirmed updates are published; texts exist |
| Snapshots, `incremental/snapshot.py` | files, manifest, pointer, marker | publish, purge, restore | readers during publication and purge | a published snapshot is complete; a reader gets exactly one version |
| Bundles, `vertical/bundle.py` | staged and current bundle | export, point, prune | rename over the current one; texts read later than the index | `current` is always whole |
| Recrawl feed, vertical crawl | none shared | pure functions, sequential loops | - | - |
| Batch index, `index/` | ranges, partial indexes, published files | plan ranges, materialise, index, merge, publish | fragments read before parts; five prefixes overwritten in turn | doc_ids are a partition; a reader never mixes builds |
| PageRank, `pagerank/` | link graph, scores | read pages, read documents, compute, upload | workers share one listing, pages go or change meanwhile; scores have no version | each page counts once; scores belong to the index they are used with |
| Shards and replicas, `query/`, `registry/` | shard files, registrations with a TTL | split, download, register, heartbeat, choose | version read apart from the files; expiry; failover | a replica announces what it serves, but for what overlapped its load; one replica per shard |
| Console, `console/` | artefacts, cached answers | download, view, fan out, cache | answer computed on an old view | a cached answer is complete, and of its version as far as the console can know |
| Cache store, `cache/` | entries with a TTL, LRU order | get, set, evict | expiry against eviction | bounded, never stale |

`PROJECT.json` lists the same parts with the modules that cover them, and the
hazards of the whole code base at their lines.

## The modules

| Module | Models | Uses |
|---|---|---|
| `MessageQueue` | one stream with its group, as a value | |
| `ObjectStorage` | a map from keys to bodies, as a value | |
| `SafeStorage` | what the storage in a directory promises | |
| `LocalStorage` | that storage, one operation on the file system at a time | instantiates `SafeStorage` |
| `LinkGraph` | the link graph read from it, beside those who write | `LocalStorage` |
| `LinkGraphProofs` | the theorems of both, the refinement among them | |
| `CrawlWorker` | the crawl | `MessageQueue` |
| `CrawlWorkerProofs` | its theorems | |
| `LeaseSemaphore` | what the rate limiter promises (its in-memory double) | |
| `RateLimiter` | the limiter over Redis, command by command | instantiates `LeaseSemaphore` |
| `RateLimiterProofs` | its theorems, the refinement among them | |
| `SegmentedIndex` | the library of segments, as the indexer uses it (external) | `ObjectStorage` |
| `IncrementalIndexer` | the indexer and its publications | `MessageQueue`, `SegmentedIndex` |
| `IncrementalIndexerProofs` | its theorems, and those of `BundleExport` | |
| `SnapshotReader` | the download of a snapshot meanwhile | `IncrementalIndexer` |
| `BundleExport` | the exporter of bundles beside the indexer | `SnapshotReader` |
| `ExtractWorker` | the extraction | `MessageQueue`, `ObjectStorage` |
| `ExtractWorkerProofs` | its theorems | |
| `GlobalDocIds` | ranges, remapping, merge, catalog, resolution, as operators | |
| `IndexBuild` | a batch build beside the extraction that writes what it reads | `ExtractWorker`, `GlobalDocIds` |
| `IndexBuildProofs` | its theorems | `ExtractWorkerProofs` |
| `IndexPublication` | the jobs that publish an index, the processes that load it | `ObjectStorage` |
| `IndexPublicationProofs` | its theorems | |
| `ShardServing` | replicas of shards, the registry, the choice of one per shard | |
| `CacheStore` | the cache as operators on its entries | |
| `ConsoleSearch` | the search: cluster, cache, fan-out | `ShardServing`, `CacheStore` |
| `ShardServingProofs` | the theorems of `ShardServing` and `ConsoleSearch` | |
| `MC*` | constants for TLC | |

### How state and actions correspond to the code

*Grain.* All the code is asyncio: between two awaits nothing else runs in a
process, and everything else may run at an await. An action is one call on a
shared service with the local code around it, and a process may crash between
any two. An error of a service that the code does not handle ends the process,
so it is a crash.

*Messages.* A stream is one record: the log, the cursor, the pending positions.
`ensure_group` creates the group at position 0, so that when it is called makes
no difference. `consume` hands out new messages only, in both backends.

*Storage in a directory* (`LocalStorage`). A put opens the file of the body in
place, which empties it, writes its blocks, and does the same with the sidecar;
a get reads block by block to the end; a list takes the names, then the size and
the sidecar of each. `names` and `blocks` are the directory and the files, so
that a file that was removed or opened by two is what the file system makes of
it. `call` and `reply` are history: what a call may rely on, and what it
returned. `SafeStorage` is that promise as a specification of its own, after
Lamport's safe registers: of a key that nobody writes while a call lasts, the
call sees what is there; a write that none overlaps leaves what was put; nothing
else is touched. `LinkGraph` uses the calls as its workers do
(`materialize_link_graph`), with everybody else reduced to arbitrary writes. The
other modules use `ObjectStorage`, where a call is one step, which is S3. On a
directory they hold as far as a body that is torn is refused: a manifest by its
digest, a marker, a catalog or a page by its parser, which is an error of the
process that read it, modelled as its death or its retry. An index file that is
read while a build replaces it has no such guard, and is one more mixture of two
builds in the sense of `IndexPublication`.

*Crawl* (`CrawlWorker`). `pc[w]` is the await a worker is at. `Start`,
`PublishSeed` are `run` and `_seed_frontier`; `Receive`, `IdlePoll`,
`StopAtMaxPages` the loop; `Claim` ... `FetchSucceeds` are `_process_job`;
`PutPage` and `Announce` `_write_page`; `PublishOutlink` `_enqueue_outlinks`;
`AckCurrent` the end of an iteration. A URL is a spelling, `Canon` is
`url_hash`. Waiting for the rate limit is staying at `fetch`. Crawl results are
what a page links to; robots, fetch errors and parse errors are choices.

*Rate limit* (`RateLimiter`). One domain. Keys with a TTL and scores are ticks
that count down (`gate`, `left`), a clock reading is an age that counts up, and
clocks differ by `Skew`. WATCH is `dirty`, set by every write to the key. A poll
that finds the gate closed changes nothing and is not a step. A lease has the first
of `Tokens` that no other has, in place of a uuid, so that the requests are without
number.

*Extraction* (`ExtractWorker`). `ReadPage` is `_process_job`; `PutDocuments`,
`FeedUpdate`, `PutDiscarded`, `PutManifest` are `_flush`, entered from a full
buffer, then followed by the confirmation, or from the end of `run`, then
followed by the stop. `KeepsId` says whether a restarted worker has the same
`worker_id`: a container that is restarted keeps its hostname, a new one does
not. The update stream is configured. `documents` and `discarded` are the
buffers, `fed` the progress of the loop that publishes them.

*Indexer* (`IncrementalIndexer`). `Open`, `RestoreFiles`, `RestoreManifest` are
`open`; `Collect`, `CloseBatch` are `_collect_batch`; `PutText` ...
`MaybeMerge` and `DeleteText`, `AckNext` are `_apply_batch`; `ListRemote` ...
`EndPublish` are `SnapshotPublisher.publish`. A version is what it hashes: the
manifest and the content of its files. A document is named by the position of
the message that brought it. The volume survives a crash and is lost by
`LoseVolume`, which only happens while no process runs.

*Bundles* (`SnapshotReader`, `BundleExport`). `ReadPointer` is the beginning of
`export_bundle`; the rest of `SnapshotReader` is `restore_snapshot`: the manifest
with its digest, a listing per segment, the files in order. `OpenIndex` ...
`Prune` are what `export_bundle` does with the download. The writer is a step of
`IncrementalIndexer`, interleaved (`WriterStep`). `bundles` is in the order of the
modification times `_prune` sorts by, which is the order of staging: a rename
does not change them. `Die` is the death of the exporter; an error of a download
ends the process too, and the next one starts again at `idle`.

*Batch index* (`GlobalDocIds`, `IndexBuild`). The computations of `index/` are
operators: `ComputeDocIdRanges`, `PartFor`, `RemapIndex`, `MergeIndexes`; and
`Resolve` is the way back in `console/snippets.py`. `StartBuild` ... `Merge` are
`IndexingPipeline.run` up to the upload, one request on the storage at a time,
beside any step of `ExtractWorker`: nothing in the code keeps a build from
running early.

*Publication* (`IndexPublication`). An object is the set of the builds it was
made from, so that a mixture shows. `BuildPlan` and `ShardPlan` are the order of
the uploads; `StartRank`, `PutScores` are `compute-pagerank`; `StartReplica`,
`GetShardFile`, `GetShardMarker` are `ShardReplicaService.start` up to the
subprocess; `StartConsole` ... `GetManifest` are `download_console_artifacts`.
`torn` and `orderly` are history, for the properties. `compute-pagerank` reads the
`documents.jsonl` of the index (`Documents`), not the corpus beside it.

*Serving* (`ShardServing`). `StartSharding` ... `PutMarker` are
`ShardIndexPipeline.run`, in the order of its requests: the marker of the source, its
files, the shards file by file, the marker. A build is published in one step here,
since the builds that come in between give shard-index the mixtures which one under
way does, and `IndexPublication` has the rest. A replica goes from `down` over `get`
(its files, one by one), `marker` (the version, after them) and `healthy` (its server
answers) to `up` (registered); `alone` is a service whose server has died.
`Register` is one step, `RegisterFails` covers a registration that got half way,
which in Consul leaves an entry that is critical. Ages count the ticks since a
heartbeat. `Discover` and `Chosen` are read by the console in one step, as the
code does after one request. `start` counts the starts of a replica: it is
history, to tell the process that registered from the one at its address. So are
`settled` (the last run of shard-index was whole, and no build came in between its
reads) and `undisturbed` (what the replica loaded was settled, and nothing was put
until it had its version).

*Search* (`CacheStore`, `ConsoleSearch`). One query, with one key per index
version. `Snapshot` is the discovery at the beginning of a search, `LookUp` the
cache, `Ask` one shard of the fan-out, `Finish` the composition, `Store` the
cache again. What a shard answers is the builds it has loaded. The store is the one
in memory, which drops the entry that was used least recently; Redis, the one
that replicas of the console share, has the same entries and no limit.

### Abstractions

- The policy of the segment merge is all or nothing; which tiers are merged
  changes no property, since a merge keeps the live documents.
- Adding, deleting and merging are atomic on the volume: the library replaces
  its manifest by a rename.
- The idle and update limits of the indexer only end it between batches.
- The cache of file hashes is not modelled: files on the volume are immutable.
- A segment is one object, so a listing sees all of its files or none.
- The bundle's staging directories are not kept: none but the last is read, and
  those of an exporter that died stay on the disk, which no property is about.
- A listing of a directory gets all names in one operation, a sidecar is one
  block, and `mkdir` and the validation of keys are left out, as are keys that
  are the sidecar or the parent of another.
- Builds have different contents, and so different versions.
- Positions and frequencies of terms, lengths and statistics of the index,
  ranking and snippets.
- One domain for the rate limiter: keys of different domains are disjoint.
- Counters that the code never reads (statistics, idle polls without a limit)
  are left out.

## What is checked

Every run and its properties are in `PROJECT.json`; every property of a passing
run has a mutant of the code that breaks it. The mutants stand in the modules,
before the definition they replace.

### Runs that pass

| Run | Instance | What it shows |
|---|---|---|
| `crawl` | 2 workers, 4 spellings of 3 pages with a cycle, depth 2, batches of 2, page limit 3, 1 crash | `FetchedOnce`, `UnfinishedIsPending`, `AckedIsClaimed`, `AnnouncedIsStored`, `FrontierClosed`, `IdleShutdownDrains`, `EveryWorkerStops` |
| `limiter` | 2 workers with clocks a tick apart, limit 1, any number of requests, lease of 3 ticks, 1 crash | `InFlightBounded`, `ImplementsSemaphore`, `DomainMovesOn` |
| `indexer` | 2 URLs, 3 updates or invalid messages, batches of 2 in polls of 1, 2 crashes, 1 loss of the volume | `TypeOK`, `PublishedIsComplete`, `VersionIsContent`, `PublishedHasText`, `AckedIsPublishedByKept`, `EveryUpdateIsAppliedOrHeld` |
| `bundle` | 2 URLs, 3 publications, any number of downloads, 1 death of the exporter | `GraceHolds`, `BundleIsSnapshot`, `OpenedIsKept`, `TextsAreNotOlder`, `BundleCatchesUp` |
| `build` | 2 workers, 2 indexable pages and 1 other, 2 terms, flush at 2, page limit 3, 1 crash, 1 build | `NothingTwice`, `ConfirmedIsKept`, `ManifestIsExact`, `PartsAreFinal`, `ConfirmedIsStored`, `IndexIsAligned`, `CatalogResolves`, `NothingDeclaredIsLeftOut`, `QuietBuildSucceeds` |
| `publish` | an index of 2 files, 2 builds, 2 shardings, 1 ranking, 1 interruption | `AcceptedIsWhole`, `OrderlyIsWhole`, `ConsoleComesUp` |
| `registry` | 2 replicas of a shard of 2 files, entries of 1 tick, 2 builds, 2 runs of shard-index and 1 interruption, each replica restarted once | `RegistryIsTrue`, `Failover` |
| `serving` | 2 shards of 1 replica, 1 console, a cache of 1 entry for 1 tick, 2 builds of which the second is sharded meanwhile, each replica restarted once | `CachedIsComplete` |
| `local` | 2 keys, pages of 1 and of 2 blocks, 2 workers of the link graph, 2 other clients with 2 writes, any failures | `ImplementsSafeStorage`, `GraphIsComplete` |

What the properties say, in the words of their comments:

- *Crawl.* A page is requested once; what is unfinished stays pending; nothing is
  confirmed unclaimed or announced unstored; the links of every page that was
  crawled reach the frontier; when all have stopped by themselves nothing is
  left; every worker stops.
- *Limiter.* Requests whose lease no clock has expired are within the limit; the
  Redis commands implement the semaphore; while somebody waits, somebody gets
  through, whatever leases the dead left behind. Who does is chance.
- *Indexer.* The published manifest is complete; versions are exact; documents
  have texts; confirmed updates are published; every update is applied unless a
  process had collected it when it died, or a restore was cut short.
- *Bundles.* A reader finds its files within one commit; a bundle is exactly the
  snapshot it declares, however many commits the download met; `current` never
  dangles, and the bundle it pointed to before is kept; no text is older than its
  document, and it is missing only if its URL was deleted later; whatever was
  missed, refused or died before, the bundle that is current in the end has what the
  stream said last.
- *Extraction.* No document is in two parts or fed twice; what is confirmed is in a
  part, a buffer, or was lost with a process; fragments count what is in the
  parts; no part is written twice; what is confirmed gets stored.
- *Build.* A doc_id means the same in the corpus, the documents and the postings;
  the catalog leads every doc_id to its document; a build has each document once,
  and all that was declared when it began; it fails only if a worker disturbed it.
- *Storage in a directory.* However the calls interleave and wherever they fail, the
  directory keeps the promise of `SafeStorage`; the link graph counts every page that
  was listed once, and has each page that nobody wrote meanwhile as it is.
- *Publication.* A console that comes up has one index, that of its version, unless
  a build had begun to replace it; jobs and downloads that do not overlap never
  mix builds; the console comes up again and again.
- *Serving.* A registration is of the process at its address or of one before it, and
  announces the build of every file the replica has if nothing was put during its load
  and what it loaded was the whole of a run; a shard with a live registered replica is
  searched at one that answers; what is cached is bounded, complete, announced with
  the version of the key, and of that version if the process that answered is the one
  of the snapshot and was not disturbed when it loaded.

*Why the bounds are enough.* Two workers are enough for every race on a claim,
a lease or a message; a third only adds more of the same pairs. The site has a
cycle, a duplicate spelling and a page only the last level has, so each limit
of the crawl decides something. The page limit of the crawl falls into the middle
of a batch of two; a worker of the extraction flushes when its buffer is full
and once more when it stops. Three updates make one to three batches, so a URL is
updated within a batch and across them, and the third publication has a generation to
keep and, after a merge, one to purge. Three publications are one more than the grace a reader
has and one more than the bundles that are kept. Two builds are enough for every
mixture, since a mixture is of two; two index files are enough for one to be
replaced and the other not. Two replicas of a shard are enough for a failover, and
a restart of each for both shards to come back with another build; every replica is up
at first, as after any deployment. Two runs of shard-index are one that is cut short
and one that repairs it; `serving`, where replicas are loaded in between all the same,
has one, of a build that is there at first (`BuiltAtFirst`), and shards of one file.
A lease of three ticks can expire during a request and during an attempt.
One crash can hit every step; what it leaves behind is what matters, and a
second one adds only another point of death. It does not in the indexer, where the
recovery has steps of its own, the restore after a loss: so there are two, the second of
which can hit what follows the first. Two writes on a directory are
enough for a put to overlap a put, a delete or a read, and a third would only
overlap in the same pairs; the body of two blocks can be torn, and the one of one
block can be longer or shorter than what it replaces. The bounds on updates,
crashes, losses, writes, builds and age are constants that appear in guards
(`MaxUpdates`, `MaxCrashes`, `MaxLosses`, `MaxWrites`, `MaxDeaths`,
`MaxAge`, `MaxBuilds`, `MaxRanks`, `MaxShardings`, `MaxStarts`) and in no other
place. The workers of `local` play the same part, and so do the clients that write:
that run, which checks no liveness, uses their symmetry.

*Deadlock* is not checked: workers stop, streams run dry, bounds are reached.
The liveness properties take its place.

*Fairness.* A live process that is not blocked takes its next step (weak
fairness of `Step`), because asyncio and the operating system schedule it, its
calls have timeouts and `consume` returns within `block_ms`; and a process that
died is restarted (`restart: on-failure`). Time passes (`Tick`). Nothing is
assumed about crashes, losses, announcements or updates. The exporter of bundles
looks for a snapshot again and again (`--watch-seconds`), and after a death or an
error the next one does. For the publication: a
job that was started runs to its end, and a console that failed to start is
started again (`restart: on-failure`). For the registry: its clock ticks, and the
heartbeats of a replica that lives reach it in the end; nothing is assumed of
starts and deaths. (A total timeout of aiohttp is no `ClientError`, so
`registry/consul.py:113` lets it through and it would end `_heartbeat_loop`. The model
has no such error. After it the entry is dropped in the end, and the replica is one
without a registration, of which `Failover` says nothing.) `MaxAge` bounds how
long an attempt of the limiter takes; it keeps time from passing while an
attempt is pending longer than that, which weak fairness of the attempt's steps
would exclude in any case.

### Runs that find a disagreement

Each of these checks one sentence of the documentation or of a comment, quoted
under "findings" in `PROJECT.json`, and finds the code does otherwise.

| Run | Sentence | What happens |
|---|---|---|
| `indexer_crash` | a batch that was not confirmed is applied again | nothing claims pending messages, a new process reads new ones only |
| `extract_restart` | part files are never overwritten | the part number restarts, the worker_id does not |
| `registry_lone` | a shard that dies without warning does not stay in the registry | the service outlives its server and goes on with its heartbeats |

They bound what the passing runs say, and the properties of the passing runs
carry the conditions: `EveryUpdateIsAppliedOrHeld` speaks of updates no dead
process had collected, `PartsAreFinal` of replacements with a new identity,
`Failover` of shards where no service outlives its server.

### What does not hold, without a run

These limits are visible in the models too. A property that is weaker for their
sake is named.

- A put in a directory is not atomic, as `incremental/snapshot.py:21` takes it to be:
  `PutIsAtomic` of `LocalStorage` fails, since a reader of a body that is being
  replaced gets a part of it, or nothing. `SafeStorage` is what remains.
- An object deleted during a listing of a directory ends the listing with a
  `FileNotFoundError`, which is not an error of the storage
  (`storage/local.py:126`, `133`); `EndList` of `SafeStorage` allows it.
- The starts of requests are not spaced by the gate: it is passed before the
  semaphore, and the start comes later (`crawl/rate_limiter.py:169`), although its
  docstring has the gate alone guarantee one new request in a delay.
- After the loss of the volume a confirmed update may be missing: names of segments
  are used again, and a file whose name is there is not uploaded
  (`incremental/snapshot.py:134`; `AckedIsPublishedByKept`, `VersionIsContent` and
  `PublishedHasText` speak of a volume that was never lost).
- A restarted indexer does not know the generation of grace
  (`incremental/snapshot.py:107`), so `GraceHolds` is checked without a restart.
- `restore_snapshot` does not miss a segment that was deleted before its listing;
  a bundle is safe because the index is opened before it is used (`OpenIndex`).
- A crash during a restore leaves files without `segments.json`: every next process
  finds no local copy, and `restore_snapshot` refuses a directory that is not empty
  (`incremental/snapshot.py:213`), until somebody empties it. The indexer does not come
  up and no update is applied; `EveryUpdateIsAppliedOrHeld` excepts it by `CutShort`.
- One worker may be kept waiting at the gate for ever: it is polled, without a queue,
  and another may win every opening. `EveryRequestServed` of `RateLimiter` fails;
  `DomainMovesOn` is what remains.
- The text of a document is replaced before the snapshot that has the document, so
  for a while a reader finds a later text (`src/ARCHITECTURE.md:1896` says they are
  in step); `TextsAreNotOlder` is what remains true.
- An exporter that dies between the rename and the move of `current` leaves a bundle
  that counts among the two newest, and the next one removes the bundle consoles
  have open (`vertical/bundle.py:206-218`); the second half of `OpenedIsKept` is
  about exporters that did not die.
- A crash between a part and its updates leaves them out of the incremental index,
  although they are in the batch index (`PartsAreFed` fails; `src/README.md:596-597` says
  the two never disagree). `FedIsInParts`, the other direction, is proved.
- Two producers share the update stream: what a vertical crawl gathered may be sent
  after a recrawl has deleted it, and the later message wins.
- A build can fail with "an extract worker was still writing" where none was: a
  crash between a part and its fragment leaves the same mismatch for good
  (`index/pipeline.py:84-86`; `MismatchMeansStillWriting` fails, and
  `QuietBuildSucceeds` excludes crashes).
- A console, or a replica, that starts while files are replaced may mix builds and
  not notice (`console/artifacts.py:11-12`, `src/ARCHITECTURE.md:1557-1560`). The
  conditions of `AcceptedIsWhole` and `OrderlyIsWhole` say when it does not; the second
  is about jobs and downloads that do not overlap at all.
- A replica reads the version after its files (`query/shard_replica_service.py:97-104`)
  and compares nothing: one that starts during shard-index announces a build it does not
  serve. `AnnouncedIsServed` of `ShardServing` fails; `RegistryIsTrue` is what remains.
- PageRank scores carry no version, and belong to whatever build ran before.
- A replica restarted with another build under a registration that has not expired
  answers for the version in it, and so does one that was disturbed when it loaded
  (`console/cluster_search.py:17-20` says an answer of another version is left out).
  Nothing in the answer is compared, so it is even cached. `NoForeignResults` of
  `ConsoleSearch` fails; `CachedIsComplete` says that there is no other way.
- A result whose text cannot be got is left out of the answer without marking it
  degraded, and the answer is cached (`console/routes/search.py:125-128`); the texts
  are not in the model.
- The choice of a replica looks at service ids only: one of another version is
  chosen although a coherent one lives, and its shard left out.
- A replica whose registration was dropped never registers again
  (`src/ARCHITECTURE.md:1379-1391` accepts that).
- Sharding an index again with another number of shards keeps its version.

## What is proved

Proofs hold for every set of workers, every site, stream and limit allowed by
the assumptions of the modules. Each invariant below was first checked by TLC on
the run of its module, then proved to hold at first and to be kept by every step.
Where a theorem has a condition, a counterexample of TLC shows why.

*`CrawlWorkerProofs`*, from `CrawlAssumption`. The inductive invariant
`CrawlInv` strengthens the properties with what the awaits hide. `Typed` is
`TypeOK` with the cursor within the log, the batches within what was delivered.
`HeldInv`: the messages a worker still has are pending and no other worker has
them; this is what lets a worker's own acknowledgement be the only one for its
message. `ClaimInv`: a worker past its claim holds a claimed page. `FetchInv`: a
page was requested only if it is claimed, and no two workers are between the claim
and the request of one page. `WriteInv`: a worker about to announce has stored its
page. `OwnerInv`: a claimed page that is neither announced nor discarded has a
pending message that keeps it, which is one that no live worker holds, or the one
its worker is working on; the message of a worker that skips the page as a
duplicate is about to be confirmed and keeps nothing (`Keeps`). From it follow
`CrawlTypes`, `CrawlFetchesOnce`, `CrawlStoresFirst`, `CrawlConfirmsClaimed` and
`CrawlLosesNothing` (`UnfinishedIsPending`).

Two more invariants stand on it. `LinkInv` says the same of links as `OwnerInv` of
pages: a stored page whose links are not all in the frontier has a pending message
that tends it, and if a worker holds that message, the links that miss are in its
outbox, at the right depth (`Tends`, `OutboxInv`). `CrawlFrontierIsClosed` follows.
`StopInv` says that without a crash what is pending is in a live worker's hands, or
was left by one that reached its page limit, and what is undelivered has a worker
that still polls. `CrawlDrains` (`IdleShutdownDrains`) follows.

*`RateLimiterProofs`*, from `LimiterAssumption`. `LimiterInv`: the leases are a
finite set within the limit; a worker about to EXEC with a clean watch counted
room that is still there (`RoomInv`), because every write of the key dirties
every watch; a lease that no clock has expired is still in the set while its
request runs (`KeptInv`). From it follow `LimiterTypes`, `LimiterBounds`,
`LimiterBoundsInFlight`, and that every step maps to a step of `LeaseSemaphore`
or a stutter (`LimiterImplementsSemaphore`).

*`IncrementalIndexerProofs`*, from `IndexerAssumption`. `SnapshotInv`: what the
process believes to be uploaded is in storage; between the commit and the end
of the purge the published manifest is the local one, so that a purge never
deletes a file it names. `SnapshotIsComplete` follows for any crash at any step and
any loss of the volume. `IndexerInv` adds, always: what a batch and a stream are
(`StreamInv`, `BatchInv`, and `TypesAreKept` from them), and that every file holds
documents some message brought (`FileInv`). As long as no volume was lost, it adds
three conjuncts. `KeptInv`: a name is never given to other content, since the next
number is behind every name in use, locally, in storage and in the published
version; `VersionsAreContent` follows. `AppliedInv`: for each confirmed message,
the local and the published index have what it says of its URL, or what a later
one says; during a batch the local index comes first; `ConfirmedIsPublished`
follows. `TextsAreThere`: a text is at least as new as its document in both
indexes, and between the texts and the merge the texts of the batch are newer;
`PublishedHaveTexts` follows. After a loss the three fail, which the
list above explains.

The second half of that module is about `BundleExport`, from `BundleAssumption`,
with `IndexerInv`. `ReaderInv`
and `DirectoryInv`: what each step of an export holds, and that every directory has
a name of its own, so that the one an export removes is neither the current nor a
staged one. While no volume was lost: `GotInv`, what was downloaded is content of
the version wanted, whatever the indexer committed since, by `KeptInv`; `OrderInv`,
versions are exported in their order; `TextedInv`, a text that is not as new as its
document was deleted by a later message. `BundlesAreSnapshots` and
`BundleTextsAreKept` follow. If besides no exporter died, the last directory is the
current one, and the one before it was current before (`KeptBundles`), which
`_prune` spares: `OpenedBundlesAreKept`. With no crash of the indexer, the
publisher knows the files of the manifest before (`PreviousInv`), so that one
commit later what a download awaits is still there (`GraceInv`): `GraceIsKept`.

*`ExtractWorkerProofs`*, from `ExtractAssumption`. `Typed` adds to `TypeOK` that
a batch is within what was delivered and that a worker that feeds has something
left to feed; `ExtractTypes` follows. `PartInv` is about keys, `[owner, number]`:
nobody owns a part who does not exist yet (`OwnersInv`), and what a live worker
owns has a smaller number than its next part, or the number of the flush it is
in (`PartsInv`, `RefusedInv`); what it feeds is the part it has just written
(`FeedInv`). So every write of a part is to a new key. This needs `~KeepsId`, an
assumption of `ExtractPartsAreFinal` and `ExtractFeedsParts`: with `KeepsId` the
owner of a restarted worker has parts already, which `extract_restart` shows.
`ExtractsNothingTwice` needs no such assumption, nor that nobody dies. `OnceInv`
follows a page from message to part: it is announced once, at most one worker has
its message still ahead, and until it is read it is nowhere (`ReadInv`); no two
buffers share a page, a buffer that is not being fed has nothing in a part, and
what is left to feed was not fed (`DocumentsInv`). For `ConfirmedPagesAreKept`,
`KeptInv` says where a page is that was read, if no worker died: in a buffer, in
a part, or among the discarded; `FlushInv` says what of a buffer is stored when it
is emptied. For `ManifestsAreExact`, `FragmentInv` follows the totals: what a worker
has counted is the number of lines in its part files at every step of a flush
(but for the documents it is feeding, which it counts at the end), its fragment
repeats the totals from one flush to the next, and there is a fragment if there is
a part. A part adds its lines because its key is new, and the worker that replaces
another begins at zero because nothing has its identity yet: both by `PartInv`, so
`~KeepsId` is assumed again. `PartInv` and `FragmentInv` also hold with `KeepsId` until
the first crash (`Distinct`), which the proofs about a build use.

*`IndexBuildProofs`*, from `ExtractAssumption` and `BuildAssumption` (the keys are
distinct, and every identity a worker can have is among them). What a build computes
is made of recursive functions over sequences (`AssignRanges`, `SelectIn`) and of
`FlattenSeq` of the community modules. Each gets lemmas about its result, by induction
with a set of numbers in place of an operator (`UpTo`), and with the graph of the
function where its definition has to be unfolded (`Recursion`, `IsRecursive`).

`AlignInv` needs nothing of the workers but their types. The ranges are contiguous
from zero, each of another key, with as many doc_ids as its fragment counted
(`RangesOk`); at each stage, what is still to be read and what was read make up the
whole (`StageInv`); a partial index has exactly the doc_ids of its range, and its
posting lists ascend and say what its lines say (`PartialsInv`). The merge then joins
disjoint, increasing ranges: `BuiltIndexIsAligned`, whatever the workers write
meanwhile and whatever their identities.

The other three need what the workers promise (`PromiseInv`): no part is empty, a
fragment that declares a part counts documents, workers stay within the identities
the keys list, and the lines of an owner are finite. This rests on `PartInv` and `FragmentInv`, so it holds
while identities are distinct. Of the build, `CatalogInv`: the entries of the catalog
follow one another without a gap, and each has the lines of its part file, which is
final, as the corpus has them; `OnceReadInv`: no part is read twice, nor another
owner's; `AwaitInv`: a part that was declared when the build began is in the catalog
or still to come. `BuiltCatalogResolves` follows through the binary search
(`BisectRight`), and `BuildLeavesNothingOut` with `NothingTwice`. Both assume
`~KeepsId`: with `KeepsId`, TLC finds that a restarted worker writes over a part that
the catalog or the declaration is about, which is what `extract_restart` shows.
`QuietInv`: while no worker flushes, the fragments that were read are those that are
there, and the lines of a partition that were read and those to come add up to its
owner's; with `ManifestIsExact` the counts agree, and by `AlignInv` the merge has
nothing to refuse. `QuietBuildsSucceed` needs no `~KeepsId`, because it is about
builds before any crash.

*`IndexPublicationProofs`*, from `PublicationAssumption`. `WholeInv` places the
uploads of a build against what is there: every object of an index is of one build,
those before the one being put are of the newest (`PutInv`); an index file is of
the catalog's build unless a build is replacing it, and a marker is not newer than
the catalog (`CatalogInv`); a console has only files of its version, unless a
build replaced them under it (`ConsoleInv`). `AcceptedIndexIsWhole` follows for any
number of files, builds, rankings, shardings and interruptions. `OrderInv` adds
what jobs and downloads that do not overlap find, and `OrderlyIndexIsWhole`.

*`ShardServingProofs`*, from `ServingAssumption`. `ServingInv` puts three things beside
the types. `SourceInv`: what is settled under `shard-index/` is of the version of its
marker, file by file, and what a run has put so far is what it had read. `LoadOk`: a
replica that loads undisturbed has of the marker's build what it has, so that the
version it reads last is the one of its files; what was interrupted before, or is put
after, does not matter. `EntryOk`: what a replica loads is fixed by its start, and
the entries of earlier starts are of earlier numbers. `RegistrationsAreTrue` follows for
any number of replicas, files, builds, runs and starts. `SearchInv` is about the console
over it. `TargetOk`: each target of a search was an entry, of the version searched,
and is true of its replica for as long as that start runs (`StartStays`); `PartOk`: so a
part that was answered by that start, undisturbed, is of that version.
`CacheOk`: the entries of the cache are in an order without ties and within the
capacity, whatever was read, stored or expired, and each is of all shards;
`CacheIsComplete` follows.

*`LinkGraphProofs`*, from `StorageAssumption` and `GraphAssumption` (what is put
is blocks and a type, the keys have an order, the workers are finitely many). No
call of `LocalStorage` is alone, so its files may be torn at any time; `StorageInv`
says of each call what holds as long as the history has not taken it away. Always:
a call and its progress are of the shape of its step (`TypedInv`), no file has two
names (`DiskInv`), and what a client has open is named by its own key, or by nothing
any more (`OpenInv`), so that a write of one key never touches another. Of a write
that is still `alone`: what it wrote and what it has left make up what was put, the
body before the sidecar (`AloneInv`). Of a read that may still rely on a key: nobody
is writing it and it is as it was when the call began (`ExpectInv`); what a get has
read is the beginning of the file that has the name (`GetInv`); a listing has the
right entry of the key, or still has it to come, with the size it found while it
looks for the type (`ListInv`). From `StorageInvariant` every step maps to one step
of `SafeStorage` or a stutter: `LocalKeepsPromise`, and `GraphKeepsPromise` with the
workers of the link graph among the clients.

`GraphInv` is about those workers. A key is in the iterator, in the hands of one
worker, or done, and never in two of these (`OnceInv`), and their numbers add up to
what was listed (`CountInv`). A key that nobody wrote since the listing began is one
every read relies on (`KnownInv`), so that by `StorageInv` the listing has it, a get
finds it, and a line has its page (`PagesInv`). What is there and is neither in the
graph nor to come is at most what was counted as malformed (`LostInv`).
`GraphCompletes` follows for any number of workers, keys and writes.

### What is only model-checked

Everything temporal under fairness, since TLAPS does not prove it here:
`EveryWorkerStops`, `DomainMovesOn`, `EveryUpdateIsAppliedOrHeld`, `BundleCatchesUp`,
`ConfirmedIsStored`, `ConsoleComesUp`, `Failover`.

These, and nothing else: every invariant and every action property of the passing
runs, and both refinements, are stated by a theorem. The induction theorems of the
library take an operator as a parameter, which no prover here can instantiate;
where a proof needs an induction it takes the least counterexample (`NatLeast`) or an
induction over a set (`UpTo`).

## What is not modelled

- Pure or presentational code: page extraction, reranking, serialisation, query
  correction, the command line.
- The recrawl feed and the vertical crawl. Both turn what a library crawled into a
  list of updates, one after the other and with no shared state, and hand it to
  `publish_updates`, which is `Send` of `IncrementalIndexer`: its updates are
  arbitrary, so theirs are among them.
- The cache of part files in `console/snippets.py`: part files are immutable
  (`PartsAreFinal`), so it only saves reads.
- The libraries (`web_crawler_scheduler`, `html_content_extractor`,
  `inverted_index_builder`, `distributed_index_sharding`, ...): their promises
  are used, their code is elsewhere.
- Byzantine or partial failures of the services themselves.

## Plan

Done, in this order: `MessageQueue`, `CrawlWorker` and proofs; `LeaseSemaphore`,
`RateLimiter` and proofs, refinement included; `ObjectStorage`, `SegmentedIndex`,
`IncrementalIndexer`, `SnapshotReader` and the first proof; `ExtractWorker` and
proofs; `GlobalDocIds`, `IndexBuild`; `IndexPublication`; `ShardServing` and proof;
`CacheStore`, `ConsoleSearch`; `BundleExport`; `SafeStorage`, `LocalStorage` and its
refinement, `LinkGraph`; the liveness of the exporter and of the extraction beside a
build.

Since then the proofs: of every safety property of the crawl, the limiter, the
indexer, the bundles, the publication, the serving and the search, of the storage
in a directory, its refinement included, the link graph, the extraction, and the
build beside it.

Left: the temporal properties under fairness, which stay with TLC. An extension would
begin with what `Segmented index` and `Console search` leave out, the merge policy and
the fallback answers.
