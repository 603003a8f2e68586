------------------------- MODULE IncrementalIndexer -------------------------
(***************************************************************************)
(* The one process that writes a segmented index (incremental/indexer.py)  *)
(* and publishes its snapshots to object storage (incremental/snapshot.py, *)
(* SnapshotPublisher).  Each call on the queue, on the storage or on the   *)
(* local index is an action, because the process may die between any two:  *)
(* what it remembers is lost, its volume stays unless that is lost too.    *)
(*                                                                         *)
(* An update is [url, doc]; doc is TRUE for an upsert and FALSE for a      *)
(* delete.  Junk is a message that cannot be parsed.  The document of an   *)
(* upsert is named by the position of its message.                         *)
(***************************************************************************)
EXTENDS MessageQueue, SegmentedIndex

CONSTANTS
    Url,
    Junk,
    BatchSize,     \* batch_size, messages of one consume
    FlushEvery,    \* flush_every_updates, messages of one batch
    MaxUpdates,    \* bound on the updates of a behaviour
    MaxCrashes,    \* bound on the crashes of the process
    MaxLosses      \* bound on the losses of its volume

ASSUME IndexerAssumption ==
    /\ BatchSize \in Nat \ {0} /\ FlushEvery \in Nat \ {0}
    /\ MaxUpdates \in Nat /\ MaxCrashes \in Nat /\ MaxLosses \in Nat

VARIABLES
    updates,    \* the stream of index updates
    \* object storage
    remote,     \* the immutable files under the prefix, by name
    manifest,   \* segments.json
    pointer,    \* snapshot.json: a version
    marker,     \* index_version.json: a version
    texts,      \* the document store: the update whose text each URL has
    \* the volume
    disk,       \* "absent", "partial" while it is restored, or "kept"
    local,      \* the index in it
    \* the process
    pc,
    batch,      \* messages first .. last are collected and not confirmed
    todo,       \* messages whose text is still to be written or deleted
    listed,     \* _uploaded is not None
    uploaded,   \* _uploaded
    previous,   \* _previous_files
    \* history
    crashes, losses

storage == <<remote, manifest, pointer, marker, texts>>
volume  == <<disk, local>>
memory  == <<listed, uploaded, previous>>
history == <<crashes, losses>>
vars    == <<updates, storage, volume, pc, batch, todo, memory, history>>

Update     == [url: Url, doc: BOOLEAN]
FileName   == [dir: {"seg", "deletes"}, number: Nat]
NoManifest == [layers |-> <<>>, next |-> 0]
NoVersion  == [manifest |-> NoManifest, files |-> NoObjects]
EmptyBatch == [first |-> 1, last |-> 0]
Steps      == {"open", "restore", "collect", "texts", "delete", "merge",
               "list", "upload", "pointer", "marker", "purge", "confirm"}

Init ==
    /\ updates = EmptyStream
    /\ remote = NoObjects
    /\ manifest = NoManifest /\ pointer = NoVersion /\ marker = NoVersion
    /\ texts = [url \in Url |-> Dead]
    /\ disk = "absent" /\ local = EmptyIndex
    /\ pc = "open" /\ batch = EmptyBatch /\ todo = {}
    /\ listed = FALSE /\ uploaded = {} /\ previous = {}
    /\ crashes = 0 /\ losses = 0

-----------------------------------------------------------------------------
Message(i) == updates.entries[i]
Valid(i)   == Message(i) # Junk
Collected  == batch.first .. batch.last
Room       == FlushEvery - (batch.last + 1 - batch.first)

\* Mutant of Coalesced: the first operation on a URL wins.
CoalescedFirst ==
    {i \in Collected :
        Valid(i) /\ \A j \in batch.first .. (i - 1) :
                       Valid(j) => Message(j).url # Message(i).url}

\* coalesce_updates: the last operation of the batch on each URL.
Coalesced ==
    {i \in Collected :
        Valid(i) /\ \A j \in (i + 1) .. batch.last :
                       Valid(j) => Message(j).url # Message(i).url}

Upserts == {i \in Coalesced : Message(i).doc}
Deletes == {i \in Coalesced : ~Message(i).doc}

Live(url) == LiveIn(local.layers, local.files, url)

\* The upsert among those of the batch that is about the URL.
UpsertOf(url) == CHOOSE i \in Upserts : Message(i).url = url
UrlsOf(ids)   == {Message(i).url : i \in ids}

\* snapshot_version: the manifest and the content of each of its files.
ManifestOf(index) == [layers |-> index.layers, next |-> index.next]
VersionOf(index)  == [manifest |-> ManifestOf(index),
                      files |-> GetObjects(index.files, FilesOf(index))]

\* The order of sorted(): deletes/ before seg-, then the number.
IsFirst(n, names) ==
    \A m \in names \ {n} :
        IF n.dir = m.dir THEN n.number < m.number ELSE n.dir = "deletes"

Missing  == FilesOf(local) \ uploaded
Obsolete == uploaded \ (FilesOf(local) \cup previous)

-----------------------------------------------------------------------------
\* publish_updates, by any producer.
Send(update) ==
    /\ Len(updates.entries) < MaxUpdates
    /\ updates' = Publish(updates, update)
    /\ UNCHANGED <<storage, volume, pc, batch, todo, memory, history>>

\* open: the local copy, if there is a whole one; otherwise a new index if
\* nothing was ever published.
Open ==
    /\ pc = "open"
    /\ disk = "kept" \/ (disk = "absent" /\ manifest = NoManifest)
    /\ disk' = "kept"
    /\ pc' = "collect"
    /\ UNCHANGED <<updates, storage, local, batch, todo, memory, history>>

\* Mutant of RestoreFiles: a new process restores over the copy it has.
RestoreAlways ==
    /\ pc = "open"
    /\ manifest # NoManifest
    /\ disk' = "partial"
    /\ local' = [layers |-> manifest.layers,
                 next   |-> manifest.next,
                 files  |-> GetObjects(remote, ToSet(manifest.layers))]
    /\ pc' = "restore"
    /\ UNCHANGED <<updates, storage, batch, todo, memory, history>>

\* restore_snapshot: the files first.  Nothing else publishes meanwhile; a
\* directory that is not empty is refused, and the process ends again.
RestoreFiles ==
    /\ pc = "open"
    /\ disk = "absent" /\ manifest # NoManifest
    /\ disk' = IF manifest.layers = <<>> THEN "absent" ELSE "partial"
    /\ local' = [layers |-> manifest.layers,
                 next   |-> manifest.next,
                 files  |-> GetObjects(remote, ToSet(manifest.layers))]
    /\ pc' = "restore"
    /\ UNCHANGED <<updates, storage, batch, todo, memory, history>>

\* segments.json last.
RestoreManifest ==
    /\ pc = "restore"
    /\ disk' = "kept"
    /\ pc' = "collect"
    /\ UNCHANGED <<updates, storage, local, batch, todo, memory, history>>

\* One poll of _collect_batch.
Collect ==
    /\ pc = "collect"
    /\ Room > 0 /\ HasNew(updates)
    /\ LET count == IF BatchSize < Room THEN BatchSize ELSE Room
       IN  /\ updates' = Consume(updates, count)
           /\ batch' = [first |-> IF Collected = {} THEN updates.cursor + 1
                                                    ELSE batch.first,
                        last  |-> LastDelivered(updates, count)]
    /\ UNCHANGED <<storage, volume, pc, todo, memory, history>>

\* Mutants of CloseBatch: only a full batch is applied; only documents that
\* are new get their text written.
CloseBatchNew ==
    /\ pc = "collect"
    /\ Collected # {}
    /\ Room = 0 \/ ~HasNew(updates)
    /\ todo' = {i \in Upserts : Live(Message(i).url) = Dead}
    /\ pc' = "texts"
    /\ UNCHANGED <<updates, storage, volume, batch, memory, history>>

CloseBatchFull ==
    /\ pc = "collect"
    /\ Collected # {}
    /\ Room = 0
    /\ todo' = Upserts
    /\ pc' = "texts"
    /\ UNCHANGED <<updates, storage, volume, batch, memory, history>>

\* The batch is full, or the stream has nothing more for it.
CloseBatch ==
    /\ pc = "collect"
    /\ Collected # {}
    /\ Room = 0 \/ ~HasNew(updates)
    /\ todo' = Upserts
    /\ pc' = "texts"
    /\ UNCHANGED <<updates, storage, volume, batch, memory, history>>

\* Texts before the index.
PutText ==
    /\ pc = "texts"
    /\ todo # {}
    /\ texts' = [texts EXCEPT ![Message(Min(todo)).url] = Min(todo)]
    /\ todo' = todo \ {Min(todo)}
    /\ UNCHANGED <<updates, remote, manifest, pointer, marker, volume, pc,
                   batch, memory, history>>

AddDocuments ==
    /\ pc = "texts"
    /\ todo = {}
    /\ local' = IF Upserts = {} THEN local
                ELSE WithFile(local, "seg",
                              [url \in UrlsOf(Upserts) |-> UpsertOf(url)])
    /\ pc' = "delete"
    /\ UNCHANGED <<updates, storage, disk, batch, todo, memory, history>>

\* delete_urls writes tombstones for the URLs that are live.
DeleteUrls ==
    /\ pc = "delete"
    /\ LET dead == {url \in UrlsOf(Deletes) : Live(url) # Dead}
       IN  local' = IF dead = {} THEN local
                    ELSE WithFile(local, "deletes", [url \in dead |-> Dead])
    /\ pc' = "merge"
    /\ UNCHANGED <<updates, storage, disk, batch, todo, memory, history>>

MaybeMerge ==
    /\ pc = "merge"
    /\ \/ UNCHANGED local
       \/ Len(local.layers) >= 2 /\ local' = Merged(local, Url)
    /\ pc' = "list"
    /\ UNCHANGED <<updates, storage, disk, batch, todo, memory, history>>

\* publish: the names in storage are listed once per process.
ListRemote ==
    /\ pc = "list"
    /\ listed' = TRUE
    /\ uploaded' = IF listed THEN uploaded ELSE DOMAIN remote
    /\ pc' = "upload"
    /\ UNCHANGED <<updates, storage, volume, batch, todo, previous, history>>

\* Files whose name is not there yet.
Upload ==
    /\ pc = "upload"
    /\ \E n \in Missing :
           /\ IsFirst(n, Missing)
           /\ remote' = PutObject(remote, n, local.files[n])
           /\ uploaded' = uploaded \cup {n}
    /\ UNCHANGED <<updates, manifest, pointer, marker, texts, volume, pc,
                   batch, todo, listed, previous, history>>

\* Mutant of PutManifest: it does not wait for the files.
PutManifestFirst ==
    /\ pc = "upload"
    /\ manifest' = ManifestOf(local)
    /\ pc' = IF Missing = {} THEN "pointer" ELSE "upload"
    /\ UNCHANGED <<updates, remote, pointer, marker, texts, volume, batch,
                   todo, memory, history>>

\* The commit that readers see.
PutManifest ==
    /\ pc = "upload"
    /\ Missing = {}
    /\ manifest' = ManifestOf(local)
    /\ pc' = "pointer"
    /\ UNCHANGED <<updates, remote, pointer, marker, texts, volume, batch,
                   todo, memory, history>>

PutPointer ==
    /\ pc = "pointer"
    /\ pointer' = VersionOf(local)
    /\ pc' = "marker"
    /\ UNCHANGED <<updates, remote, manifest, marker, texts, volume, batch,
                   todo, memory, history>>

PutMarker ==
    /\ pc = "marker"
    /\ marker' = VersionOf(local)
    /\ pc' = "purge"
    /\ UNCHANGED <<updates, remote, manifest, pointer, texts, volume, batch,
                   todo, memory, history>>

\* Mutant of DeleteObsolete: remote.discard is forgotten.
DeleteObsoleteKept ==
    /\ pc = "purge"
    /\ \E n \in Obsolete :
           /\ n \in DOMAIN remote
           /\ IsFirst(n, Obsolete \cap DOMAIN remote)
           /\ remote' = DeleteObject(remote, n)
    /\ UNCHANGED <<updates, manifest, pointer, marker, texts, volume, pc,
                   batch, todo, memory, history>>

\* What neither this manifest nor the previous one references goes.
DeleteObsolete ==
    /\ pc = "purge"
    /\ \E n \in Obsolete :
           /\ IsFirst(n, Obsolete)
           /\ remote' = DeleteObject(remote, n)
           /\ uploaded' = uploaded \ {n}
    /\ UNCHANGED <<updates, manifest, pointer, marker, texts, volume, pc,
                   batch, todo, listed, previous, history>>

\* Mutants of EndPublish: no generation of grace, and the texts of URLs that
\* were deleted and came back in the same batch go too.
EndPublishForgets ==
    /\ pc = "purge"
    /\ Obsolete = {}
    /\ previous' = {}
    /\ todo' = {i \in Deletes : Live(Message(i).url) = Dead}
    /\ pc' = "confirm"
    /\ UNCHANGED <<updates, storage, volume, batch, listed, uploaded, history>>

EndPublishAll ==
    /\ pc = "purge"
    /\ Obsolete = {}
    /\ previous' = FilesOf(local)
    /\ todo' = {i \in Collected : Valid(i) /\ ~Message(i).doc}
    /\ pc' = "confirm"
    /\ UNCHANGED <<updates, storage, volume, batch, listed, uploaded, history>>

\* publish returns; the texts of deleted URLs that are not live may go.
EndPublish ==
    /\ pc = "purge"
    /\ Obsolete = {}
    /\ previous' = FilesOf(local)
    /\ todo' = {i \in Deletes : Live(Message(i).url) = Dead}
    /\ pc' = "confirm"
    /\ UNCHANGED <<updates, storage, volume, batch, listed, uploaded, history>>

DeleteText ==
    /\ pc = "confirm"
    /\ todo # {}
    /\ texts' = [texts EXCEPT ![Message(Min(todo)).url] = Dead]
    /\ todo' = todo \ {Min(todo)}
    /\ UNCHANGED <<updates, remote, manifest, pointer, marker, volume, pc,
                   batch, memory, history>>

\* Only then the messages of the batch are confirmed, one by one.
AckNext ==
    /\ pc = "confirm"
    /\ todo = {}
    /\ updates' = Ack(updates, batch.first)
    /\ batch' = [batch EXCEPT !.first = @ + 1]
    /\ pc' = IF batch.first = batch.last THEN "collect" ELSE "confirm"
    /\ UNCHANGED <<storage, volume, todo, memory, history>>

\* The process dies, or an error ends it; the supervisor starts another.
Crash ==
    /\ pc # "open"
    /\ crashes < MaxCrashes
    /\ crashes' = crashes + 1
    /\ pc' = "open"
    /\ batch' = EmptyBatch /\ todo' = {}
    /\ listed' = FALSE /\ uploaded' = {} /\ previous' = {}
    /\ UNCHANGED <<updates, storage, volume, losses>>

\* The new process finds an empty volume.
LoseVolume ==
    /\ pc = "open"
    /\ disk # "absent"
    /\ losses < MaxLosses
    /\ losses' = losses + 1
    /\ disk' = "absent" /\ local' = EmptyIndex
    /\ UNCHANGED <<updates, storage, pc, batch, todo, memory, crashes>>

-----------------------------------------------------------------------------
Step ==
    \/ Open \/ RestoreFiles \/ RestoreManifest
    \/ Collect \/ CloseBatch \/ PutText \/ AddDocuments \/ DeleteUrls
    \/ MaybeMerge \/ ListRemote \/ Upload \/ PutManifest \/ PutPointer
    \/ PutMarker \/ DeleteObsolete \/ EndPublish \/ DeleteText \/ AckNext

Next == Step \/ Crash \/ LoseVolume \/ \E update \in Update \cup {Junk} : Send(update)

Spec == Init /\ [][Next]_vars

\* The process runs and is restarted; no update has to be sent, and neither
\* a crash nor a loss has to happen.
FairSpec == Spec /\ WF_vars(Step)

-----------------------------------------------------------------------------
TypeOK ==
    /\ updates.entries \in Seq(Update \cup {Junk})
    /\ updates.cursor \in 0 .. Len(updates.entries)
    /\ updates.pending \subseteq 1 .. updates.cursor
    /\ manifest.next \in Nat
    /\ ToSet(manifest.layers) \cup DOMAIN remote \subseteq FileName
    /\ \A n \in DOMAIN remote : DOMAIN remote[n] \subseteq Url
    /\ texts \in [Url -> 0 .. Len(updates.entries)]
    /\ disk \in {"absent", "partial", "kept"}
    /\ pc \in Steps
    /\ Collected \subseteq 1 .. updates.cursor
    /\ todo \subseteq Collected
    /\ listed \in BOOLEAN
    /\ uploaded \subseteq DOMAIN remote

\* What a reader of the published index finds for a URL.
Published(url) == LiveIn(manifest.layers, remote, url)

\* A published manifest never names a file that is not in storage: not while
\* the next snapshot is uploaded or the obsolete files are deleted, and not
\* after a crash at any point of either.
PublishedIsComplete == ToSet(manifest.layers) \subseteq DOMAIN remote

\* What snapshot.json says is published has exactly the content its version
\* stands for, whenever the manifest is the one it describes, as long as the
\* volume is never lost (names of segments are used again after that).
VersionIsContent ==
    losses = 0 /\ pointer.manifest = manifest =>
        \A n \in ToSet(manifest.layers) \cap DOMAIN remote :
            remote[n] = pointer.files[n]

\* A published index never shows a document whose text is not in the store,
\* under the same condition.
PublishedHasText ==
    losses = 0 => \A url \in Url : Published(url) # Dead => texts[url] # Dead

\* What an update leaves for its URL.
Effect(i) == IF Message(i).doc THEN i ELSE Dead

\* A confirmed update is in the published index, unless a later one on the
\* same URL is: neither the coalescing, nor a crash, nor a merge loses it.
AckedIsPublished ==
    \A i \in Acked(updates) :
        Valid(i) => \E j \in i .. updates.cursor :
                       /\ Valid(j) /\ Message(j).url = Message(i).url
                       /\ Published(Message(i).url) = Effect(j)

\* The same of a process that has never lost its volume.
AckedIsPublishedByKept == losses = 0 => AckedIsPublished

\* Every update that is sent gets confirmed, so that its effect is published.
EveryUpdateIsApplied ==
    \A i \in 1 .. MaxUpdates :
        i <= Len(updates.entries) ~> i \in Acked(updates)

\* A restore that was cut short: what it left is neither an index nor nothing,
\* so every process that is started on this volume ends again.
CutShort == pc = "open" /\ disk = "partial"

\* The only updates that are never confirmed are those a process had collected
\* when it died: they are delivered, and nobody holds them; and those that come
\* when a restore has been cut short.
EveryUpdateIsAppliedOrHeld ==
    \A i \in 1 .. MaxUpdates :
        i <= Len(updates.entries)
            ~> i \in Acked(updates) \cup (updates.pending \ Collected) \/ CutShort
=============================================================================
