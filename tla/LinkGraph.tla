------------------------------- MODULE LinkGraph -------------------------------
(***************************************************************************)
(* The link graph of PageRank (pagerank/link_graph_materializer.py), read  *)
(* from crawled pages in a local directory while a crawl, or anybody else, *)
(* goes on writing them: workers share one iterator over the keys that     *)
(* were listed, and each gets the page of a key, and writes a line for it  *)
(* or counts why there is none.                                            *)
(*                                                                         *)
(* The calls of the workers are those of LocalStorage, by clients of their *)
(* own.  On S3 each call is one step, which is one way these interleave.   *)
(***************************************************************************)
EXTENDS LocalStorage

CONSTANTS
    Worker,     \* the clients that read the pages
    MaxWrites   \* bound on the writes of the others

ASSUME GraphAssumption ==
    Worker \subseteq Client /\ IsFiniteSet(Worker) /\ MaxWrites \in Nat

VARIABLES
    stage,      \* "idle", "listing", "reading", "done" or "failed"
    listed,     \* the keys of the listing
    iterator,   \* those no worker has taken
    lines,      \* link_graph.jsonl: of which key, and what page
    skipped,    \* pages_missing, pages_skipped_malformed
    \* history
    disturbed,  \* keys that were written since the listing began
    writes      \* how many writes began

graph == <<stage, listed, iterator, lines, skipped>>
vars  == <<localVars, graph, disturbed, writes>>

Init ==
    /\ LocalInit
    /\ stage = "idle" /\ listed = {} /\ iterator = {} /\ lines = <<>>
    /\ skipped = [missing |-> 0, malformed |-> 0]
    /\ disturbed = {} /\ writes = 0

Idlers == {c \in Worker : At(c, "idle")}

\* What parses as a page: what somebody put, and no part of it.
Page == {x.body : x \in Content}

-----------------------------------------------------------------------------
StartListing(c) ==
    /\ stage = "idle"
    /\ BeginList(c)
    /\ stage' = "listing"
    /\ UNCHANGED <<listed, iterator, lines, skipped>>

List(c) ==
    /\ ListKeys(c) \/ Stat(c) \/ ReadSidecar(c) \/ StatAgain(c)
    /\ UNCHANGED graph

Listed(c) ==
    /\ EndList(c)
    /\ listed' = DOMAIN work[c].got
    /\ iterator' = listed'
    /\ stage' = "reading"
    /\ UNCHANGED <<lines, skipped>>

\* An error of the listing ends the job.
ListingFails(c) ==
    /\ stage = "listing"
    /\ StatGone(c) \/ Fail(c)
    /\ stage' = "failed"
    /\ UNCHANGED <<listed, iterator, lines, skipped>>

\* Mutant of TakeKey: the key is taken once the page has been read.
TakeKeyLate(c) ==
    /\ stage = "reading"
    /\ iterator # {}
    /\ BeginGet(c, FirstOf(iterator))
    /\ iterator' = IF Cardinality(Idlers) = 1 THEN iterator \ {FirstOf(iterator)}
                   ELSE iterator
    /\ UNCHANGED <<stage, listed, lines, skipped>>

\* A worker takes the next key and asks for its page.
TakeKey(c) ==
    /\ stage = "reading"
    /\ iterator # {}
    /\ BeginGet(c, FirstOf(iterator))
    /\ iterator' = iterator \ {FirstOf(iterator)}
    /\ UNCHANGED <<stage, listed, lines, skipped>>

Read(c) ==
    /\ OpenForReading(c) \/ ReadBlock(c)
    /\ UNCHANGED graph

Skip(reason) ==
    /\ skipped' = [skipped EXCEPT ![reason] = @ + 1]
    /\ UNCHANGED <<stage, listed, iterator, lines>>

PageMissing(c) == NotFound(c) /\ Skip("missing")

\* An error of the storage is counted among the malformed.
PageRefused(c) == stage = "reading" /\ Fail(c) /\ Skip("malformed")

PageRead(c) ==
    /\ EndOfFile(c)
    /\ IF work[c].got \in Page
       THEN /\ lines' = Append(lines, [key |-> KeyOf(c), page |-> work[c].got])
            /\ UNCHANGED <<stage, listed, iterator, skipped>>
       ELSE Skip("malformed")

\* gather returns when every worker has found the iterator empty.
GraphDone ==
    /\ stage = "reading"
    /\ iterator = {} /\ Idlers = Worker
    /\ stage' = "done"
    /\ UNCHANGED <<localVars, listed, iterator, lines, skipped>>

WorkerStep(c) ==
    \/ StartListing(c) \/ List(c) \/ Listed(c) \/ ListingFails(c)
    \/ TakeKey(c) \/ Read(c) \/ PageMissing(c) \/ PageRefused(c) \/ PageRead(c)

\* What others do meanwhile.
BeginWrite(c) ==
    /\ writes < MaxWrites
    /\ \E k \in Key : (\E x \in Content : BeginPut(c, k, x)) \/ BeginDelete(c, k)
    /\ writes' = writes + 1

OtherStep(c) ==
    \/ WriteStep(c) \/ Fail(c)
    \/ \E k \in Key : ObjectExists(c, k)

Observe == disturbed' = IF stage' = "idle" THEN {}
                        ELSE disturbed \cup {k \in Key : Promise!Written(k)'}

Next ==
    /\ \/ (\E c \in Worker : WorkerStep(c)) /\ UNCHANGED writes
       \/ GraphDone /\ UNCHANGED writes
       \/ \E c \in Client \ Worker : /\ BeginWrite(c) \/ (OtherStep(c) /\ UNCHANGED writes)
                                    /\ UNCHANGED graph
    /\ Observe

Spec == Init /\ [][Next]_vars

-----------------------------------------------------------------------------
LinesOf(k) == {i \in DOMAIN lines : lines[i].key = k}
Whole(k)   == Stored(k) # Absent /\ Stored(k).body \in Page

\* When the graph is done, every key that was listed is accounted for, once:
\* by a line or by a count.  No page has two lines, however the workers share
\* the keys; and of the pages nobody wrote meanwhile there are exactly those
\* which are there and whole, as they are in storage, but for the errors of the
\* storage, which are counted.
GraphIsComplete ==
    stage = "done" =>
        /\ Len(lines) + skipped.missing + skipped.malformed = Cardinality(listed)
        /\ \A i, j \in DOMAIN lines : lines[i].key = lines[j].key => i = j
        /\ \A k \in Key \ disturbed : \A i \in LinesOf(k) :
             Whole(k) /\ lines[i].page = Stored(k).body
        /\ Cardinality({k \in Key \ disturbed : Whole(k) /\ LinesOf(k) = {}})
             <= skipped.malformed
=============================================================================
