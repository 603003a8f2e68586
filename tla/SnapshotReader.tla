--------------------------- MODULE SnapshotReader ---------------------------
(***************************************************************************)
(* A process that downloads the published snapshot while the indexer goes  *)
(* on publishing: vertical/bundle.py reads snapshot.json and then calls    *)
(* restore_snapshot of incremental/snapshot.py, which has no lock against  *)
(* the writer, only the order of its requests, the digest of the manifest  *)
(* and the generation of grace the writer keeps.  BundleExport composes    *)
(* the requests with the rest of the exporter and with the writer.         *)
(***************************************************************************)
EXTENDS IncrementalIndexer

VARIABLES
    at,        \* which request is next
    wanted,    \* the version snapshot.json named
    held,      \* the segments.json it downloaded
    unlisted,  \* segments of the manifest still to be listed
    queue,     \* files to download
    got,       \* files downloaded
    commits    \* history: manifests published since the reader got its own

reader == <<at, wanted, held, unlisted, queue, got, commits>>

ReaderInit ==
    /\ Init
    /\ at = "idle" /\ wanted = NoVersion /\ held = NoManifest
    /\ unlisted = <<>> /\ queue = {} /\ got = NoObjects
    /\ commits = 0

\* The files the download needs.
Layers == ToSet(held.layers)

\* snapshot.json, if there is one.
ReadPointer ==
    /\ at = "idle"
    /\ pointer # NoVersion
    /\ wanted' = pointer
    /\ got' = NoObjects
    /\ at' = "manifest"
    /\ UNCHANGED <<held, unlisted, queue, commits>>

\* Mutant of ReadManifest: the digest is not compared.
ReadManifestUnchecked ==
    /\ at = "manifest"
    /\ held' = manifest
    /\ unlisted' = manifest.layers
    /\ commits' = 0
    /\ at' = "list"
    /\ UNCHANGED <<wanted, queue, got>>

\* segments.json, if it is the one the version describes.
ReadManifest ==
    /\ at = "manifest"
    /\ manifest = wanted.manifest
    /\ held' = manifest
    /\ unlisted' = manifest.layers
    /\ commits' = 0
    /\ at' = "list"
    /\ UNCHANGED <<wanted, queue, got>>

\* A publication came in between: give up.
ReadManifestChanged ==
    /\ at = "manifest"
    /\ manifest # wanted.manifest
    /\ at' = "idle"
    /\ UNCHANGED <<wanted, held, unlisted, queue, got, commits>>

\* The files of the next segment are what the storage lists under its name;
\* tombstones go by the name in the manifest.
ListSegment ==
    /\ at = "list"
    /\ unlisted # <<>>
    /\ LET n == Head(unlisted)
       IN  queue' = IF n \in DOMAIN remote \/ n.dir = "deletes"
                    THEN queue \cup {n} ELSE queue
    /\ unlisted' = Tail(unlisted)
    /\ UNCHANGED <<at, wanted, held, got, commits>>

GetFile ==
    /\ at = "list"
    /\ unlisted = <<>>
    /\ \E n \in queue \cap DOMAIN remote :
           /\ IsFirst(n, queue)
           /\ got' = PutObject(got, n, remote[n])
           /\ queue' = queue \ {n}
    /\ UNCHANGED <<at, wanted, held, unlisted, commits>>

\* A file is not there any more: the download ends with an error.
GetFileMissing ==
    /\ at = "list"
    /\ unlisted = <<>>
    /\ \E n \in queue \ DOMAIN remote : IsFirst(n, queue)
    /\ queue' = {}
    /\ at' = "idle"
    /\ UNCHANGED <<wanted, held, unlisted, got, commits>>

\* segments.json is written last, and restore_snapshot returns True.
Complete ==
    /\ at = "list"
    /\ unlisted = <<>>
    /\ queue = {}
    /\ at' = "done"
    /\ UNCHANGED <<wanted, held, unlisted, queue, got, commits>>

\* The indexer's step, with the commits the reader does not know of counted.
WriterStep ==
    /\ Next
    /\ commits' = IF PutManifest /\ at = "list" THEN commits + 1 ELSE commits
    /\ UNCHANGED <<at, wanted, held, unlisted, queue, got>>

-----------------------------------------------------------------------------
\* The generation of grace: a reader whose manifest was replaced at most once
\* still finds in storage every file it has yet to download.  (A process that
\* dies takes with it which files were the manifest's before.)
GraceHolds ==
    crashes = 0 /\ at = "list" /\ commits <= 1 =>
        ToSet(unlisted) \cup queue \subseteq DOMAIN remote
=============================================================================
