------------------------------ MODULE IndexBuild ------------------------------
(***************************************************************************)
(* The batch index (index/pipeline.py) beside the workers whose part files *)
(* it reads.  build-index should run once the extraction is over, but      *)
(* nothing keeps it from being launched before: here it starts at any time *)
(* and the workers go on.  It lists the fragments of the manifest and gets *)
(* them one by one, gives every partition its doc_ids, and then lists and  *)
(* gets the part files of one partition after the other.                   *)
(*                                                                         *)
(* The publication of what is built is IndexPublication.  A build writes   *)
(* nothing the workers read, so one build is modelled, from any state of   *)
(* the extraction.                                                         *)
(***************************************************************************)
EXTENDS ExtractWorker, GlobalDocIds

CONSTANTS
    KeyOrder,   \* the partition keys there can be, in their lexicographic order
    Term,
    TermsOf     \* the terms of a page

ASSUME BuildAssumption ==
    /\ KeyOrder \in Seq(OwnerId) /\ IsInjective(KeyOrder)
    /\ Worker \X (0 .. MaxCrashes) \subseteq ToSet(KeyOrder)
    /\ TermsOf \in [Page -> SUBSET Term]

VARIABLES
    stage,     \* where the build is
    todo,      \* listed keys it has not got yet
    entries,   \* the fragments it has got
    ranges,    \* doc_id_ranges
    lines,     \* the materialised partition
    corpus,    \* documents.jsonl, in the order of the doc_ids
    catalog,   \* the parts of the corpus catalog
    partials,  \* the partial indexes
    index,     \* the merged index
    \* history
    declared,  \* the documents the manifest declared when the build began
    disturbed  \* a worker was in the middle of a flush during the build

building  == <<stage, todo, entries, ranges, lines, corpus, catalog, partials,
               index, declared>>
buildVars == <<building, disturbed>>
allVars   == <<vars, buildVars>>

Stages == {"idle", "fragments", "list", "parts", "merge", "built", "failed"}

NoIndex == [documents |-> NoObjects, postings |-> [t \in Term |-> <<>>]]

BuildInit ==
    /\ Init
    /\ stage = "idle" /\ todo = <<>> /\ entries = NoObjects /\ ranges = <<>>
    /\ lines = <<>> /\ corpus = <<>> /\ catalog = <<>> /\ partials = <<>>
    /\ index = NoIndex /\ declared = {} /\ disturbed = FALSE

-----------------------------------------------------------------------------
Flushing(w) == pc[w] \in {"parts", "feed", "refused", "manifest"}

\* The partition at hand is the one whose index comes next.
DocRange == ranges[Len(partials) + 1]

\* The keys of a partition's document parts, in the order of their numbers.
PartKeysOf(owner) ==
    LET mine == {k \in DOMAIN parts : k.owner = owner}
    IN  CHOOSE keys \in [1 .. Cardinality(mine) -> mine] :
            \A i, j \in DOMAIN keys : i < j => keys[i].seq < keys[j].seq

NextPartition == IF Len(partials') < Len(ranges') THEN "list" ELSE "merge"

\* read_manifest: the listing, and, if there is nothing in it, the empty build.
StartBuild ==
    /\ stage = "idle"
    /\ todo' = SelectIn(KeyOrder, DOMAIN manifests)
    /\ stage' = IF todo' = <<>> THEN "merge" ELSE "fragments"
    /\ declared' = PagesIn([k \in {l \in DOMAIN parts :
                                     /\ l.owner \in DOMAIN manifests
                                     /\ l.seq < manifests[l.owner].files}
                              |-> parts[k]])
    /\ UNCHANGED <<entries, ranges, lines, corpus, catalog, partials, index>>

\* One fragment, as it is now; the doc_ids are assigned after the last.
GetFragment ==
    /\ stage = "fragments"
    /\ entries' = PutObject(entries, Head(todo), manifests[Head(todo)])
    /\ todo' = Tail(todo)
    /\ IF Len(todo) > 1
       THEN UNCHANGED <<stage, ranges, partials>>
       ELSE /\ ranges' = ComputeDocIdRanges(KeyOrder, entries')
            /\ UNCHANGED partials
            /\ stage' = NextPartition
    /\ UNCHANGED <<lines, corpus, catalog, index, declared>>

\* list_document_part_keys of the next partition.
ListParts ==
    /\ stage = "list"
    /\ todo' = PartKeysOf(DocRange.owner)
    /\ lines' = <<>>
    /\ stage' = "parts"
    /\ UNCHANGED <<entries, ranges, corpus, catalog, partials, index, declared>>

\* Mutant of GetPart: the range of a part begins where it ends.
GetPartAfter ==
    /\ stage = "parts"
    /\ todo # <<>>
    /\ LET documentsOf == parts[Head(todo)]
       IN  /\ lines' = lines \o documentsOf
           /\ catalog' = IF documentsOf = <<>> THEN catalog
                         ELSE Append(catalog, [key   |-> Head(todo),
                                               start |-> DocRange.start + Len(lines'),
                                               count |-> Len(documentsOf)])
    /\ todo' = Tail(todo)
    /\ UNCHANGED <<stage, entries, ranges, corpus, partials, index, declared>>

\* One part file goes to the materialised partition and to the catalog.
GetPart ==
    /\ stage = "parts"
    /\ todo # <<>>
    /\ LET documentsOf == parts[Head(todo)]
       IN  /\ lines' = lines \o documentsOf
           /\ catalog' = IF documentsOf = <<>> THEN catalog
                         ELSE Append(catalog, [key   |-> Head(todo),
                                               start |-> DocRange.start + Len(lines),
                                               count |-> Len(documentsOf)])
    /\ todo' = Tail(todo)
    /\ UNCHANGED <<stage, entries, ranges, corpus, partials, index, declared>>

\* The partition is complete: what was read must be what its fragment counts.
IndexPartition ==
    /\ stage = "parts"
    /\ todo = <<>>
    /\ IF Len(lines) # DocRange.end - DocRange.start
       THEN /\ stage' = "failed"
            /\ UNCHANGED <<ranges, corpus, partials>>
       ELSE /\ corpus' = corpus \o lines
            /\ partials' = Append(partials, RemapIndex(
                               LocalIndex(lines, TermsOf, Term), DocRange.start))
            /\ UNCHANGED ranges
            /\ stage' = NextPartition
    /\ UNCHANGED <<todo, entries, lines, catalog, index, declared>>

\* merge_partition_indexes, which refuses partial indexes that overlap.
Merge ==
    /\ stage = "merge"
    /\ IF StrictlyIncreasing(partials)
       THEN /\ index' = MergeIndexes(partials, Term)
            /\ stage' = "built"
       ELSE /\ stage' = "failed"
            /\ UNCHANGED index
    /\ UNCHANGED <<todo, entries, ranges, lines, corpus, catalog, partials, declared>>

BuildStep ==
    StartBuild \/ GetFragment \/ ListParts \/ GetPart \/ IndexPartition \/ Merge

\* History: whether a worker flushes while the build reads.
Observe == disturbed' = \/ disturbed
                        \/ stage' # "idle" /\ \E w \in Worker : Flushing(w)'

BuildNext ==
    /\ \/ BuildStep /\ UNCHANGED vars
       \/ Next /\ UNCHANGED building
    /\ Observe

BuildSpec == BuildInit /\ [][BuildNext]_allVars

\* The workers run; the build may stop anywhere.
FairBuildSpec == BuildSpec /\ Fairness

-----------------------------------------------------------------------------
DocIds == 0 .. Len(corpus) - 1

\* What a build hands to its publication is aligned, whatever the workers did
\* meanwhile: the doc_id of a document is its line in the corpus, in the
\* merged documents and in every posting list, whose doc_ids ascend and are
\* exactly those of the documents with the term.
IndexIsAligned ==
    stage = "built" =>
        /\ index.documents = [d \in DocIds |-> corpus[d + 1]]
        /\ \A t \in Term :
              /\ ToSet(index.postings[t]) = {d \in DocIds : t \in TermsOf[corpus[d + 1]]}
              /\ \A i, j \in DOMAIN index.postings[t] :
                    i < j => index.postings[t][i] < index.postings[t][j]

\* The catalog resolves every doc_id of the build to its document, also when
\* the workers have written other parts since; and no other doc_id.
CatalogResolves ==
    stage = "built" =>
        /\ Resolve(catalog, parts, Len(corpus)) = NoDocument
        /\ \A d \in DocIds : Resolve(catalog, parts, d) = corpus[d + 1]

\* No document is in the corpus twice, and every document which the manifest
\* declared when the build began is there.
NothingDeclaredIsLeftOut ==
    stage = "built" => IsInjective(corpus) /\ declared \subseteq ToSet(corpus)

\* A build that no worker disturbs with a flush succeeds, unless a crash has
\* left a fragment behind its parts: this is the other half of what the
\* workers' manifest promises.
QuietBuildSucceeds == stage = "failed" /\ crashes = 0 => disturbed

\* What the error of a failed build says: an extract worker was still writing
\* while the build ran.
MismatchMeansStillWriting == stage = "failed" => disturbed
=============================================================================
