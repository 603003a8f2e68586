----------------------------- MODULE GlobalDocIds -----------------------------
(***************************************************************************)
(* The global doc_id space of the batch index (index/doc_id_ranges.py,     *)
(* index/partition_indexer.py, index/merge.py, index/corpus_catalog.py)    *)
(* and the way back, from a doc_id to its document (console/snippets.py).  *)
(* Every partition gets a contiguous range of doc_ids; its index, built    *)
(* with doc_ids from zero, is moved into that range; and the moved indexes *)
(* are joined.  The catalog gives every part file its range in turn.       *)
(*                                                                         *)
(* An index is a record: the document of every doc_id, and for every term  *)
(* its posting list, empty for a term that does not occur.  Positions and  *)
(* frequencies of terms, lengths and statistics are left out.              *)
(***************************************************************************)
EXTENDS Integers, SequencesExt

\* The elements of a sequence that are in a set, in their order.
SelectIn(seq, S) ==
    LET selected[n \in 0 .. Len(seq)] ==
            IF n = 0 THEN <<>>
            ELSE IF seq[n] \in S THEN Append(selected[n - 1], seq[n])
            ELSE selected[n - 1]
    IN  selected[Len(seq)]

\* The doc_id after those of some ranges.
NextDocId(ranges) == IF ranges = <<>> THEN 0 ELSE ranges[Len(ranges)].end

\* The keys that have documents, in order, each with as many doc_ids as
\* documents, which come after those of the keys before.
AssignRanges(order, counts) ==
    LET assigned[n \in 0 .. Len(order)] ==
            IF n = 0 THEN <<>>
            ELSE LET o      == order[n]
                     before == assigned[n - 1]
                     start  == NextDocId(before)
                 IN  IF o \in DOMAIN counts /\ counts[o] > 0
                     THEN Append(before, [owner |-> o, start |-> start,
                                          end |-> start + counts[o]])
                     ELSE before
    IN  assigned[Len(order)]

\* Mutants of ComputeDocIdRanges: the part files are counted for the documents,
\* and a partition of one document is taken for an empty one.
ComputeDocIdRangesFiles(order, entries) ==
    AssignRanges(order, [o \in DOMAIN entries |-> entries[o].files])

ComputeDocIdRangesSkip(order, entries) ==
    AssignRanges(order, [o \in {e \in DOMAIN entries : entries[e].count.documents > 1}
                           |-> entries[o].count.documents])

\* compute_doc_id_ranges: the partitions of the manifest in the order of
\* their keys; the empty ones are left out.
ComputeDocIdRanges(order, entries) ==
    AssignRanges(order, [o \in DOMAIN entries |-> entries[o].count.documents])

-----------------------------------------------------------------------------
\* bisect_right of the standard library, over an ascending sequence.
BisectRight(starts, x) == Cardinality({i \in DOMAIN starts : starts[i] <= x})

NoPart == [key |-> "none"]

EndOf(part) == part.start + part.count

\* part_for: the entry of the catalog whose range has the doc_id.
PartFor(catalog, d) ==
    LET i == BisectRight([j \in DOMAIN catalog |-> catalog[j].start], d)
    IN  IF i >= 1 /\ catalog[i].start <= d /\ d < EndOf(catalog[i])
        THEN catalog[i] ELSE NoPart

NoDocument == <<>>

\* resolve of the console: the document of a doc_id is the line of the part
\* file that its place in the range says.  A part that is gone, or shorter
\* than the catalog says, gives no document.
Resolve(catalog, files, d) ==
    LET part == PartFor(catalog, d)
        line == d - part.start + 1
    IN  IF part # NoPart /\ part.key \in DOMAIN files /\ line <= Len(files[part.key])
        THEN files[part.key][line] ELSE NoDocument

-----------------------------------------------------------------------------
\* IndexBuilder.build of the library, as it is used here: the document of
\* line n has the doc_id n - 1, and posting lists ascend.
LocalIndex(lines, termsOf, terms) ==
    [documents |-> [d \in 0 .. Len(lines) - 1 |-> lines[d + 1]],
     postings  |-> [t \in terms |->
                      SelectIn([n \in DOMAIN lines |-> n - 1],
                               {d \in 0 .. Len(lines) - 1 :
                                   t \in termsOf[lines[d + 1]]})]]

\* Mutant of RemapIndex: the posting lists keep the local doc_ids.
RemapDocumentsOnly(index, offset) ==
    [documents |-> [d \in {l + offset : l \in DOMAIN index.documents} |->
                      index.documents[d - offset]],
     postings  |-> index.postings]

\* remap_index_to_global_doc_ids.
RemapIndex(index, offset) ==
    [documents |-> [d \in {l + offset : l \in DOMAIN index.documents} |->
                      index.documents[d - offset]],
     postings  |-> [t \in DOMAIN index.postings |->
                      [n \in DOMAIN index.postings[t] |->
                         index.postings[t][n] + offset]]]

\* _ensure_strictly_increasing_ranges, over indexes that have documents.
StrictlyIncreasing(indexes) ==
    \A i, j \in DOMAIN indexes :
        i < j => \A d \in DOMAIN indexes[i].documents :
                    \A e \in DOMAIN indexes[j].documents : d < e

\* merge_partition_indexes, for indexes that increase.
MergeIndexes(indexes, terms) ==
    [documents |->
        [d \in UNION {DOMAIN indexes[i].documents : i \in DOMAIN indexes} |->
            LET i == CHOOSE n \in DOMAIN indexes : d \in DOMAIN indexes[n].documents
            IN  indexes[i].documents[d]],
     postings  |->
        [t \in terms |->
            FlattenSeq([i \in DOMAIN indexes |-> indexes[i].postings[t]])]]
=============================================================================
