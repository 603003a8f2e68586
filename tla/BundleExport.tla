---------------------------- MODULE BundleExport ----------------------------
(***************************************************************************)
(* The exporter of bundles (vertical/bundle.py) as the reader of the       *)
(* snapshots: it downloads the published one into a staging directory,     *)
(* adds the texts of its documents, renames the directory, moves the link  *)
(* `current` to it and removes old bundles, while the indexer goes on.     *)
(* The console opens what `current` points to and may keep it open after   *)
(* the link has moved.                                                     *)
(*                                                                         *)
(* Staging directories have names of their own and are emptied before they *)
(* are used again, so only the last one matters: the download (got) and    *)
(* the lines of documents.jsonl (lines).                                   *)
(***************************************************************************)
EXTENDS SnapshotReader

CONSTANTS
    KeepBundles,   \* _KEEP_BUNDLES, which is 2
    MaxDeaths      \* bound on the deaths of the exporter

ASSUME BundleAssumption == KeepBundles \in Nat \ {0, 1} /\ MaxDeaths \in Nat

VARIABLES
    unread,    \* URLs whose text is still to be read
    lines,     \* documents.jsonl: the update whose text a URL got
    bundles,   \* the bundle-* directories, in the order they were staged
    current,   \* the version `current` points to
    before,    \* history: the version it pointed to before
    deaths

directory == <<bundles, current, before>>
exporter  == <<unread, lines, directory, deaths>>

BundleInit ==
    /\ ReaderInit
    /\ unread = {} /\ lines = NoObjects
    /\ bundles = <<>> /\ current = NoVersion /\ before = NoVersion
    /\ deaths = 0

Staged       == [version |-> wanted, files |-> got, lines |-> lines]
VersionsOf(s) == {s[i].version : i \in DOMAIN s}

\* _live_urls: what the index in the bundle finds.
LiveUrls(files) ==
    {url \in Url : LiveIn(held.layers, files, url) # Dead}

\* Mutant of StartExport: a directory of that name is taken for an export.
StartExportExists ==
    /\ at = "idle"
    /\ pointer \notin VersionsOf(bundles)
    /\ ReadPointer
    /\ lines' = NoObjects
    /\ UNCHANGED <<unread, directory, deaths>>

\* snapshot.json names another version than the current bundle has.
StartExport ==
    /\ at = "idle"
    /\ pointer # current
    /\ ReadPointer
    /\ lines' = NoObjects
    /\ UNCHANGED <<unread, directory, deaths>>

\* restore_snapshot, request by request.
Download ==
    /\ \/ ReadManifest \/ ReadManifestChanged
       \/ ListSegment \/ GetFile \/ GetFileMissing \/ Complete
    /\ UNCHANGED exporter

\* The index is opened; one with a segment missing is refused.
OpenIndex ==
    /\ at = "done"
    /\ IF DOMAIN got = Layers
       THEN unread' = LiveUrls(got) /\ at' = "texts"
       ELSE UNCHANGED unread /\ at' = "idle"
    /\ UNCHANGED <<wanted, held, unlisted, queue, got, commits>>
    /\ UNCHANGED <<lines, directory, deaths>>

\* The text of one live document; without a text it is left out.
ReadText ==
    /\ at = "texts"
    /\ \E url \in unread :
           /\ lines' = IF texts[url] = Dead THEN lines
                       ELSE PutObject(lines, url, texts[url])
           /\ unread' = unread \ {url}
    /\ UNCHANGED reader
    /\ UNCHANGED <<directory, deaths>>

\* A directory of that name was left by an exporter that died: it goes.
RemoveTarget ==
    /\ at = "texts"
    /\ unread = {}
    /\ LET old == {i \in DOMAIN bundles : bundles[i].version = wanted}
       IN  bundles' = IF old = {} THEN bundles ELSE RemoveAt(bundles, Max(old))
    /\ at' = "rename"
    /\ UNCHANGED <<wanted, held, unlisted, queue, got, commits>>
    /\ UNCHANGED <<unread, lines, current, before, deaths>>

Rename ==
    /\ at = "rename"
    /\ bundles' = Append(bundles, Staged)
    /\ at' = "point"
    /\ UNCHANGED <<wanted, held, unlisted, queue, got, commits>>
    /\ UNCHANGED <<unread, lines, current, before, deaths>>

\* _point_current: one os.replace.
PointCurrent ==
    /\ at = "point"
    /\ current' = wanted
    /\ before' = current
    /\ at' = "prune"
    /\ UNCHANGED <<wanted, held, unlisted, queue, got, commits>>
    /\ UNCHANGED <<unread, lines, bundles, deaths>>

\* Mutant of Newest: one generation less survives.
NewestButOne ==
    {bundles[i].version : i \in {k \in DOMAIN bundles : k + KeepBundles > Len(bundles) + 1}}

\* The bundles that were staged last.
Newest ==
    {bundles[i].version : i \in {k \in DOMAIN bundles : k + KeepBundles > Len(bundles)}}

\* _prune, one directory after another, the newest first.
Prune ==
    /\ at = "prune"
    /\ LET old == {i \in DOMAIN bundles :
                      bundles[i].version \notin Newest \cup {wanted}}
       IN  IF old = {} THEN at' = "idle" /\ UNCHANGED bundles
           ELSE /\ bundles' = RemoveAt(bundles, Max(old))
                /\ UNCHANGED at
    /\ UNCHANGED <<wanted, held, unlisted, queue, got, commits>>
    /\ UNCHANGED <<unread, lines, current, before, deaths>>

\* The exporter dies; what it staged is of no use to the next one.
Die ==
    /\ at # "idle"
    /\ deaths < MaxDeaths
    /\ deaths' = deaths + 1
    /\ at' = "idle"
    /\ unread' = {} /\ unlisted' = <<>> /\ queue' = {}
    /\ UNCHANGED <<wanted, held, got, commits, lines, directory>>

Export ==
    \/ StartExport \/ Download \/ OpenIndex \/ ReadText
    \/ RemoveTarget \/ Rename \/ PointCurrent \/ Prune

BundleNext ==
    \/ WriterStep /\ UNCHANGED exporter
    \/ (Export \/ Die) /\ UNCHANGED vars

exportVars == <<reader, exporter>>

BundleSpec == BundleInit /\ [][BundleNext]_<<vars, exportVars>>

\* The indexer runs; the exporter looks for a new snapshot again and again
\* (--watch-seconds), and is restarted.
FairBundleSpec == BundleSpec /\ WF_vars(Step) /\ WF_exportVars(Export)

-----------------------------------------------------------------------------
\* What is exported is, file by file, the snapshot whose version the bundle
\* declares, however many publications and purges the download met: the
\* digest, the errors for files that went and the opening of the index
\* exclude a mixture, although the writer takes no lock.  (A writer that loses
\* its volume may give a name, and so a version, to another content.)
BundleIsSnapshot ==
    losses = 0 => \A i \in DOMAIN bundles : bundles[i].files = bundles[i].version.files

\* `current` never dangles, not even if the exporter dies between its steps;
\* and the bundle a console may still have open, the one `current` pointed to
\* before, is whole for as long as the new one is current, if none died.
OpenedIsKept ==
    /\ current # NoVersion => current \in VersionsOf(bundles)
    /\ losses = 0 /\ deaths = 0 /\ before # NoVersion => before \in VersionsOf(bundles)

\* The texts of a bundle are read after its index, from a store the indexer
\* replaces: each is the text of the document that is indexed or of a later
\* one, and is missing only if its URL was deleted later.
TextsAreNotOlder ==
    losses = 0 => \A i \in DOMAIN bundles : \A url \in Url :
        LET made == bundles[i]
            doc  == LiveIn(made.version.manifest.layers, made.files, url)
        IN  doc # Dead =>
                \/ url \in DOMAIN made.lines /\ made.lines[url] >= doc
                \/ \E j \in (doc + 1) .. updates.cursor :
                       Message(j) = [url |-> url, doc |-> FALSE]

\* What the stream, the index of a bundle and its texts have for a URL.
Said(url) ==
    LET about == {i \in DOMAIN updates.entries : Valid(i) /\ Message(i).url = url}
    IN  IF about = {} THEN Dead ELSE Effect(Max(about))

Shows(made, url) ==
    /\ LiveIn(made.version.manifest.layers, made.files, url) = Said(url)
    /\ Said(url) # Dead => url \in DOMAIN made.lines /\ made.lines[url] = Said(url)

\* In the end, and whatever snapshots, errors and deaths there were in between,
\* the bundle that consoles open has what the stream said last of each URL,
\* index and text, and nothing else.
BundleCatchesUp ==
    []<>(\/ current = NoVersion /\ \A url \in Url : Said(url) = Dead
         \/ \E i \in DOMAIN bundles :
               /\ bundles[i].version = current
               /\ \A url \in Url : Shows(bundles[i], url))
=============================================================================
