--------------------------- MODULE SegmentedIndex ---------------------------
(***************************************************************************)
(* The segmented index of the library inverted_index_builder.segments, as  *)
(* incremental/indexer.py and incremental/snapshot.py use it: a manifest   *)
(* that lists immutable files, numbered by a counter the manifest carries. *)
(* An update is named by the position of its message.                      *)
(*                                                                         *)
(* A file is a function from the URLs it speaks of to updates: a segment   *)
(* (a directory seg-...) maps a URL to the update that brought its         *)
(* document, tombstones (in deletes/) map it to Dead.  Later files         *)
(* override earlier ones, which is what the tombstones that an upsert      *)
(* leaves in older segments come to.  A directory keeps its files as a     *)
(* storage keeps its objects.                                              *)
(***************************************************************************)
EXTENDS ObjectStorage, Naturals, Sequences, SequencesExt

Dead == 0

EmptyIndex == [layers |-> <<>>, next |-> 1, files |-> NoObjects]

FilesOf(index) == ToSet(index.layers)

\* The update whose document is live for the URL, Dead if none is.
LiveIn(layers, files, url) ==
    LET about == {i \in DOMAIN layers :
                     layers[i] \in DOMAIN files /\ url \in DOMAIN files[layers[i]]}
    IN  IF about = {} THEN Dead ELSE files[layers[Max(about)]][url]

\* add_documents and delete_urls write a new file, then swap the manifest.
WithFile(index, dir, file) ==
    LET name == [dir |-> dir, number |-> index.next]
    IN  [layers |-> Append(index.layers, name),
         next   |-> index.next + 1,
         files  |-> PutObject(index.files, name, file)]

\* maybe_merge rewrites the segments into a new one without the dead
\* documents.  The tiers of the policy are left out: all of them, or none.
Merged(index, urls) ==
    LET live == {url \in urls : LiveIn(index.layers, index.files, url) # Dead}
        file == [url \in live |-> LiveIn(index.layers, index.files, url)]
        none == [layers |-> <<>>, next |-> index.next, files |-> NoObjects]
    IN  WithFile(none, "seg", file)
=============================================================================
