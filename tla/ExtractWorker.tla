---------------------------- MODULE ExtractWorker ----------------------------
(***************************************************************************)
(* The distributed extraction (extract/worker.py, extract/manifest.py):    *)
(* workers share the stream of crawled pages and nothing else.  Each one   *)
(* buffers what it extracts, confirms the message, and writes its buffers  *)
(* later, as new part files under its own worker_id, with a manifest       *)
(* fragment that counts them; the documents of a part also go to the       *)
(* stream of the incremental indexer.                                      *)
(*                                                                         *)
(* A page is named by its URL and is announced once (CrawlWorker fetches a *)
(* page once).  Whether it yields a document depends on the page alone.    *)
(* A container that is restarted keeps its hostname, which is the          *)
(* worker_id; one that is created anew gets another: KeepsId says which.   *)
(***************************************************************************)
EXTENDS MessageQueue, ObjectStorage, SequencesExt

CONSTANTS
    Worker,      \* containers
    Page,
    Indexable,   \* the pages that yield a document
    BatchSize,   \* batch_size
    FlushEvery,  \* flush_every_pages
    MaxPages,    \* max_pages, NoLimit for None
    IdlePolls,   \* idle_polls_before_shutdown, NoLimit for None
    NoLimit,
    KeepsId,     \* a restarted worker has the worker_id it had
    MaxCrashes   \* bound on the crashes of a behaviour

ASSUME ExtractAssumption ==
    /\ Indexable \subseteq Page
    /\ BatchSize \in Nat \ {0} /\ FlushEvery \in Nat \ {0}
    /\ NoLimit \notin Nat
    /\ MaxPages \in (Nat \ {0}) \cup {NoLimit}
    /\ IdlePolls \in (Nat \ {0}) \cup {NoLimit}
    /\ KeepsId \in BOOLEAN
    /\ MaxCrashes \in Nat

VARIABLES
    \* shared services
    jobs,       \* the stream of pages to extract
    pages,      \* crawled pages in object storage
    parts,      \* documents-NNNNNN.jsonl, by owner and number
    refused,    \* discarded-NNNNNN.jsonl, likewise
    manifests,  \* the manifest fragment of each owner
    updates,    \* what was published for the incremental indexer
    \* one entry per worker process
    pc,
    batch,      \* messages consume returned and the loop has not finished
    documents,  \* _document_buffer
    discarded,  \* _discarded_buffer
    fed,        \* how many of the documents have been published
    partSeq,    \* _part_seq
    written,    \* _total_documents_written, _total_discarded_written
    processed,  \* stats.pages_processed
    idle,       \* consecutive empty polls
    \* history
    runs,       \* how often the container was created
    missing,    \* pages that were not in storage when their turn came
    crashes

services == <<jobs, pages, parts, refused, manifests, updates>>
buffers  == <<documents, discarded, fed, partSeq, written>>
loop     == <<batch, processed, idle>>
history  == <<runs, missing, crashes>>
vars     == <<services, pc, loop, buffers, history>>

Steps == {"poll", "read", "parts", "feed", "refused", "manifest", "ack",
          "stopped", "crashed"}

EmptyBatch   == [next |-> 1, last |-> 0]
NothingYet   == [documents |-> 0, discarded |-> 0]
OwnerId      == Worker \X Nat
PartKey      == [owner: OwnerId, seq: Nat]
WorkerId(w)  == <<w, IF KeepsId THEN 0 ELSE runs[w]>>
PartKeyOf(w) == [owner |-> WorkerId(w), seq |-> partSeq[w]]

Init ==
    /\ jobs = EmptyStream /\ pages = {}
    /\ parts = NoObjects /\ refused = NoObjects /\ manifests = NoObjects
    /\ updates = <<>>
    /\ pc = [w \in Worker |-> "poll"]
    /\ batch = [w \in Worker |-> EmptyBatch]
    /\ documents = [w \in Worker |-> <<>>]
    /\ discarded = [w \in Worker |-> <<>>]
    /\ fed = [w \in Worker |-> 0]
    /\ partSeq = [w \in Worker |-> 0]
    /\ written = [w \in Worker |-> NothingYet]
    /\ processed = [w \in Worker |-> 0]
    /\ idle = [w \in Worker |-> 0]
    /\ runs = [w \in Worker |-> 0] /\ missing = {} /\ crashes = 0

-----------------------------------------------------------------------------
Current(w)         == batch[w].next
PageOf(w)          == jobs.entries[Current(w)]
InBatch(w)         == batch[w].next <= batch[w].last
ReachedMaxPages(w) == MaxPages # NoLimit /\ processed[w] >= MaxPages

Goto(w, step) == pc' = [pc EXCEPT ![w] = step]

\* Where _flush begins, for the buffers it finds, and where it goes when
\* there is nothing in them.
FlushStep(docs, others, nothing) ==
    IF docs # <<>> THEN "parts" ELSE IF others # <<>> THEN "refused" ELSE nothing

\* The flush after the loop, on the way out of run.
LastFlush(w) == Goto(w, FlushStep(documents[w], discarded[w], "stopped"))

\* The crawl announces a page, which is in storage unless the write failed
\* or somebody deleted it since.
Announce(p) ==
    /\ \A i \in DOMAIN jobs.entries : jobs.entries[i] # p
    /\ jobs' = Publish(jobs, p)
    /\ pages' = pages \cup {p} \/ UNCHANGED pages
    /\ UNCHANGED <<parts, refused, manifests, updates, pc, loop, buffers, history>>

\* consume returned messages.
Receive(w) ==
    /\ pc[w] = "poll"
    /\ ~ReachedMaxPages(w)
    /\ HasNew(jobs)
    /\ jobs' = Consume(jobs, BatchSize)
    /\ batch' = [batch EXCEPT ![w] = [next |-> jobs.cursor + 1,
                                      last |-> LastDelivered(jobs, BatchSize)]]
    /\ idle' = [idle EXCEPT ![w] = 0]
    /\ Goto(w, "read")
    /\ UNCHANGED <<pages, parts, refused, manifests, updates, processed,
                   buffers, history>>

\* Mutants of IdlePoll: the worker leaves what it has in its buffers, and an
\* empty poll is not counted.
IdlePollNoFlush(w) ==
    /\ pc[w] = "poll"
    /\ ~ReachedMaxPages(w)
    /\ ~HasNew(jobs)
    /\ IdlePolls # NoLimit
    /\ idle' = [idle EXCEPT ![w] = @ + 1]
    /\ Goto(w, IF idle[w] + 1 >= IdlePolls THEN "stopped" ELSE "poll")
    /\ UNCHANGED <<services, batch, processed, buffers, history>>

IdlePollUncounted(w) ==
    /\ pc[w] = "poll"
    /\ ~ReachedMaxPages(w)
    /\ ~HasNew(jobs)
    /\ IdlePolls # NoLimit
    /\ IF idle[w] + 1 > IdlePolls THEN LastFlush(w) ELSE Goto(w, "poll")
    /\ UNCHANGED <<services, loop, buffers, history>>

\* consume timed out with nothing new.  Without a limit the counter is never
\* read, and the model does not count.
IdlePoll(w) ==
    /\ pc[w] = "poll"
    /\ ~ReachedMaxPages(w)
    /\ ~HasNew(jobs)
    /\ IdlePolls # NoLimit
    /\ idle' = [idle EXCEPT ![w] = @ + 1]
    /\ IF idle[w] + 1 >= IdlePolls THEN LastFlush(w) ELSE Goto(w, "poll")
    /\ UNCHANGED <<services, batch, processed, buffers, history>>

\* The page limit ends the loop between polls, or in the middle of a batch,
\* whose other messages stay delivered and unconfirmed.
StopAtMaxPages(w) ==
    /\ pc[w] \in {"poll", "read"}
    /\ ReachedMaxPages(w)
    /\ batch' = [batch EXCEPT ![w] = EmptyBatch]
    /\ LastFlush(w)
    /\ UNCHANGED <<services, processed, idle, buffers, history>>

\* The page is extracted into one of the buffers, and the buffers are written
\* once they are full.
ReadPage(w) ==
    /\ pc[w] = "read"
    /\ ~ReachedMaxPages(w)
    /\ PageOf(w) \in pages
    /\ processed' = [processed EXCEPT ![w] = @ + 1]
    /\ IF PageOf(w) \in Indexable
       THEN /\ documents' = [documents EXCEPT ![w] = Append(@, PageOf(w))]
            /\ UNCHANGED discarded
       ELSE /\ discarded' = [discarded EXCEPT ![w] = Append(@, PageOf(w))]
            /\ UNCHANGED documents
    /\ Goto(w, IF Len(documents'[w]) + Len(discarded'[w]) >= FlushEvery
               THEN FlushStep(documents'[w], discarded'[w], "ack") ELSE "ack")
    /\ UNCHANGED <<services, batch, idle, fed, partSeq, written, history>>

\* A page that is not in storage is counted and confirmed.
ReadMissing(w) ==
    /\ pc[w] = "read"
    /\ ~ReachedMaxPages(w)
    /\ PageOf(w) \notin pages
    /\ missing' = missing \cup {PageOf(w)}
    /\ Goto(w, "ack")
    /\ UNCHANGED <<services, loop, buffers, runs, crashes>>

\* _flush: the documents first, as one new object.
PutDocuments(w) ==
    /\ pc[w] = "parts"
    /\ parts' = PutObject(parts, PartKeyOf(w), documents[w])
    /\ Goto(w, "feed")
    /\ UNCHANGED <<jobs, pages, refused, manifests, updates, loop, buffers, history>>

\* Mutant of FeedUpdate: the buffer is not cleared.
FeedUpdateKeep(w) ==
    /\ pc[w] = "feed"
    /\ updates' = Append(updates, documents[w][fed[w] + 1])
    /\ IF fed[w] + 1 < Len(documents[w])
       THEN /\ fed' = [fed EXCEPT ![w] = @ + 1]
            /\ UNCHANGED <<pc, written>>
       ELSE /\ fed' = [fed EXCEPT ![w] = 0]
            /\ written' = [written EXCEPT ![w].documents = @ + Len(documents[w])]
            /\ Goto(w, FlushStep(<<>>, discarded[w], "manifest"))
    /\ UNCHANGED <<jobs, pages, parts, refused, manifests, loop, documents,
                   discarded, partSeq, history>>

\* Then each of them to the indexer, and the buffer is cleared after the last.
FeedUpdate(w) ==
    /\ pc[w] = "feed"
    /\ updates' = Append(updates, documents[w][fed[w] + 1])
    /\ IF fed[w] + 1 < Len(documents[w])
       THEN /\ fed' = [fed EXCEPT ![w] = @ + 1]
            /\ UNCHANGED <<pc, documents, written>>
       ELSE /\ fed' = [fed EXCEPT ![w] = 0]
            /\ written' = [written EXCEPT ![w].documents = @ + Len(documents[w])]
            /\ documents' = [documents EXCEPT ![w] = <<>>]
            /\ Goto(w, FlushStep(<<>>, discarded[w], "manifest"))
    /\ UNCHANGED <<jobs, pages, parts, refused, manifests, loop, discarded,
                   partSeq, history>>

\* Then the discarded pages.
PutDiscarded(w) ==
    /\ pc[w] = "refused"
    /\ refused' = PutObject(refused, PartKeyOf(w), discarded[w])
    /\ written' = [written EXCEPT ![w].discarded = @ + Len(discarded[w])]
    /\ discarded' = [discarded EXCEPT ![w] = <<>>]
    /\ Goto(w, "manifest")
    /\ UNCHANGED <<jobs, pages, parts, manifests, updates, loop, documents, fed,
                   partSeq, history>>

\* Mutants of PutManifest: the number of the next part stays, or the totals
\* are those of one flush.
PutManifestSameSeq(w) ==
    /\ pc[w] = "manifest"
    /\ manifests' = PutObject(manifests, WorkerId(w),
                              [count |-> written[w], files |-> partSeq[w] + 1])
    /\ Goto(w, IF InBatch(w) THEN "ack" ELSE "stopped")
    /\ UNCHANGED <<jobs, pages, parts, refused, updates, loop, buffers, history>>

PutManifestOneFlush(w) ==
    /\ pc[w] = "manifest"
    /\ partSeq' = [partSeq EXCEPT ![w] = @ + 1]
    /\ manifests' = PutObject(manifests, WorkerId(w),
                              [count |-> written[w], files |-> partSeq'[w]])
    /\ written' = [written EXCEPT ![w] = NothingYet]
    /\ Goto(w, IF InBatch(w) THEN "ack" ELSE "stopped")
    /\ UNCHANGED <<jobs, pages, parts, refused, updates, loop, documents,
                   discarded, fed, history>>

\* And the totals, over the fragment of the flush before.  The flush was
\* called for the message at hand, or after the loop.
PutManifest(w) ==
    /\ pc[w] = "manifest"
    /\ partSeq' = [partSeq EXCEPT ![w] = @ + 1]
    /\ manifests' = PutObject(manifests, WorkerId(w),
                              [count |-> written[w], files |-> partSeq'[w]])
    /\ Goto(w, IF InBatch(w) THEN "ack" ELSE "stopped")
    /\ UNCHANGED <<jobs, pages, parts, refused, updates, loop, documents,
                   discarded, fed, written, history>>

AckCurrent(w) ==
    /\ pc[w] = "ack"
    /\ jobs' = Ack(jobs, Current(w))
    /\ batch' = [batch EXCEPT ![w].next = @ + 1]
    /\ Goto(w, IF Current(w) = batch[w].last THEN "poll" ELSE "read")
    /\ UNCHANGED <<pages, parts, refused, manifests, updates, processed, idle,
                   buffers, history>>

\* The process dies, or an error of a service ends run(), with what it knew.
Crash(w) ==
    /\ pc[w] \notin {"stopped", "crashed"}
    /\ crashes < MaxCrashes
    /\ crashes' = crashes + 1
    /\ batch' = [batch EXCEPT ![w] = EmptyBatch]
    /\ documents' = [documents EXCEPT ![w] = <<>>]
    /\ discarded' = [discarded EXCEPT ![w] = <<>>]
    /\ fed' = [fed EXCEPT ![w] = 0]
    /\ partSeq' = [partSeq EXCEPT ![w] = 0]
    /\ written' = [written EXCEPT ![w] = NothingYet]
    /\ processed' = [processed EXCEPT ![w] = 0]
    /\ idle' = [idle EXCEPT ![w] = 0]
    /\ Goto(w, "crashed")
    /\ UNCHANGED <<services, runs, missing>>

\* restart: on-failure, or a container created in its place.
Restart(w) ==
    /\ pc[w] = "crashed"
    /\ runs' = [runs EXCEPT ![w] = @ + 1]
    /\ Goto(w, "poll")
    /\ UNCHANGED <<services, loop, buffers, missing, crashes>>

-----------------------------------------------------------------------------
Step(w) ==
    \/ Receive(w) \/ IdlePoll(w) \/ StopAtMaxPages(w)
    \/ ReadPage(w) \/ ReadMissing(w)
    \/ PutDocuments(w) \/ FeedUpdate(w) \/ PutDiscarded(w) \/ PutManifest(w)
    \/ AckCurrent(w)

Next ==
    \/ \E p \in Page : Announce(p)
    \/ \E w \in Worker : Step(w) \/ Crash(w) \/ Restart(w)

Spec == Init /\ [][Next]_vars

\* A process that is not blocked runs, and the supervisor restarts it.
Fairness == \A w \in Worker : WF_vars(Step(w)) /\ WF_vars(Restart(w))

-----------------------------------------------------------------------------
TypeOK ==
    /\ jobs \in StreamOf(Page)
    /\ pages \subseteq Page
    /\ DOMAIN parts \cup DOMAIN refused \subseteq PartKey
    /\ \A k \in DOMAIN parts : parts[k] \in Seq(Indexable)
    /\ \A k \in DOMAIN refused : refused[k] \in Seq(Page \ Indexable)
    /\ DOMAIN manifests \subseteq OwnerId
    /\ updates \in Seq(Indexable)
    /\ pc \in [Worker -> Steps]
    /\ batch \in [Worker -> [next: Nat, last: Nat]]
    /\ documents \in [Worker -> Seq(Indexable)]
    /\ discarded \in [Worker -> Seq(Page \ Indexable)]
    /\ fed \in [Worker -> Nat] /\ partSeq \in [Worker -> Nat]
    /\ written \in [Worker -> [documents: Nat, discarded: Nat]]
    /\ processed \in [Worker -> Nat] /\ idle \in [Worker -> Nat]
    /\ runs \in [Worker -> Nat] /\ missing \subseteq Page /\ crashes \in Nat

\* The pages in a set of part files.
PagesIn(files) == UNION {ToSet(files[k]) : k \in DOMAIN files}
Stored         == PagesIn(parts) \cup PagesIn(refused)

\* No page is written twice, in one part or in two, of one worker or of two,
\* and none is fed to the incremental indexer twice.
NothingTwice ==
    /\ IsInjective(updates)
    /\ \A k \in DOMAIN parts :
          /\ IsInjective(parts[k])
          /\ \A l \in DOMAIN parts \ {k} : ToSet(parts[k]) \cap ToSet(parts[l]) = {}

\* A page whose message is confirmed is in a part file, in the buffer of a
\* worker that will still write it, or was not in storage.  Only a crash
\* loses one, since messages are confirmed before the flush.
ConfirmedIsKept ==
    crashes = 0 =>
        \A i \in Acked(jobs) :
            \/ jobs.entries[i] \in Stored \cup missing
            \/ \E w \in Worker :
                  /\ pc[w] # "stopped"
                  /\ jobs.entries[i] \in
                        ToSet(documents[w]) \cup ToSet(discarded[w])

\* Nothing is fed to the incremental indexer that is not in a part, so that
\* it never shows a document the batch index will not have.
FedIsInParts == ToSet(updates) \subseteq PagesIn(parts)

\* The lines of the part files of an owner.
FilesOf(files, owner) == {k \in DOMAIN files : k.owner = owner}
LinesOf(files, owner) == UNION {{k} \X DOMAIN files[k] : k \in FilesOf(files, owner)}

\* Between two flushes, and once the worker has stopped, the fragment of the
\* manifest has exactly what is in the worker's part files: build-index, which
\* refuses a corpus whose fragments are wrong, has nothing to refuse.
ManifestIsExact ==
    \A w \in Worker :
        LET id   == WorkerId(w)
            mine == FilesOf(parts, id) \cup FilesOf(refused, id)
        IN  pc[w] \in {"poll", "read", "ack", "stopped"} =>
            IF mine = {} THEN id \notin DOMAIN manifests
            ELSE /\ id \in DOMAIN manifests
                 /\ manifests[id].count =
                       [documents |-> Cardinality(LinesOf(parts, id)),
                        discarded |-> Cardinality(LinesOf(refused, id))]
                 /\ \A k \in mine : k.seq < manifests[id].files

\* A part file is never written again.
PartsAreFinal ==
    [][/\ \A k \in DOMAIN parts : k \in DOMAIN parts' /\ parts'[k] = parts[k]
       /\ \A k \in DOMAIN refused :
             k \in DOMAIN refused' /\ refused'[k] = refused[k]]_vars

\* The batch index and the incremental one never have different documents:
\* what is in a part is fed to the indexer, or its worker is about to do so.
PartsAreFed ==
    \A p \in PagesIn(parts) :
        \/ p \in ToSet(updates)
        \/ \E w \in Worker : pc[w] = "feed" /\ p \in ToSet(documents[w])

\* The pages that were confirmed are all, again and again, in a part file (or
\* were not in storage), when the workers stop because the stream is idle if not
\* before, unless a crash took a buffer.
ConfirmedIsStored ==
    []<>(crashes = 0 => \A i \in Acked(jobs) : jobs.entries[i] \in Stored \cup missing)
=============================================================================
