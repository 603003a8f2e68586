----------------------------- MODULE CrawlWorker ----------------------------
(***************************************************************************)
(* The distributed crawl (crawl/worker.py, crawl/dedup.py): workers share  *)
(* a frontier stream, a set of claimed URLs, the object storage and the    *)
(* stream that feeds the extraction, and nothing else coordinates them.    *)
(* Every await of CrawlWorker is a point where the others may run and      *)
(* where the process may die, so each call on a shared service is an       *)
(* action of its own.                                                      *)
(*                                                                         *)
(* A Url is one spelling; Canon maps it to what url_hash identifies.  The  *)
(* wait in rate_limiter.acquire is a worker that stays at "fetch" (module  *)
(* RateLimiter models how leases are granted).                             *)
(***************************************************************************)
EXTENDS MessageQueue

CONSTANTS
    Worker,      \* worker processes
    Url,         \* spellings of URLs
    Page,        \* what url_hash tells apart
    Canon,       \* [Url -> Page], urlnorm.url_hash
    Links,       \* [Url -> Seq(Url)], the outlinks of the page behind a URL
    Seeds,       \* seed_urls, the same for every worker
    MaxDepth,    \* max_depth
    BatchSize,   \* batch_size
    MaxPages,    \* max_pages, NoLimit for None
    IdlePolls,   \* idle_polls_before_shutdown, NoLimit for None
    NoLimit,
    MaxCrashes   \* bound on the crashes of a behaviour

ASSUME CrawlAssumption ==
    /\ Canon \in [Url -> Page]
    /\ Links \in [Url -> Seq(Url)]
    /\ Seeds \in Seq(Url) /\ Seeds # <<>>
    /\ MaxDepth \in Nat
    /\ BatchSize \in Nat \ {0}
    /\ NoLimit \notin Nat
    /\ MaxPages \in (Nat \ {0}) \cup {NoLimit}
    /\ IdlePolls \in (Nat \ {0}) \cup {NoLimit}
    /\ MaxCrashes \in Nat

VARIABLES
    \* shared services
    frontier,   \* the frontier stream and the crawl group
    claimed,    \* the deduplicator's SET of hashes
    stored,     \* crawled pages in object storage
    extract,    \* what was published on the extract stream
    \* one entry per worker process
    pc,         \* which await the worker is at
    batch,      \* messages consume returned and the loop has not finished
    outbox,     \* jobs the worker still has to publish
    idle,       \* consecutive empty polls
    crawled,    \* stats.pages_crawled
    \* history
    fetches,    \* how many times each page was requested from its site
    discarded,  \* pages refused by robots.txt or whose fetch failed
    crashes

shared  == <<frontier, claimed, stored, extract>>
local   == <<batch, outbox, idle, crawled>>
history == <<fetches, discarded, crashes>>
vars    == <<shared, pc, local, history>>

Job        == [url: Url, depth: Nat]
StoredPage == [page: Page, depth: Nat, links: Seq(Url)]
Steps      == {"start", "seed", "poll", "job", "robots", "fetch", "put",
               "announce", "links", "ack", "stopped", "crashed"}

TypeOK ==
    /\ frontier \in StreamOf(Job)
    /\ claimed \subseteq Page
    /\ stored \subseteq StoredPage
    /\ extract \in Seq(Page)
    /\ pc \in [Worker -> Steps]
    /\ batch \in [Worker -> [next: Nat, last: Nat]]
    /\ outbox \in [Worker -> Seq(Job)]
    /\ idle \in [Worker -> Nat]
    /\ crawled \in [Worker -> Nat]
    /\ fetches \in [Page -> Nat]
    /\ discarded \subseteq Page
    /\ crashes \in Nat

\* The jobs for a list of URLs at one depth.
JobsAt(urls, depth) ==
    [i \in DOMAIN urls |-> [url |-> urls[i], depth |-> depth]]

\* The message the worker is at, the job it carries and the page it names.
Current(w)     == batch[w].next
JobOf(w)       == frontier.entries[Current(w)]
PageOf(w)      == Canon[JobOf(w).url]
EmptyBatch     == [next |-> 1, last |-> 0]

ReachedMaxPages(w) == MaxPages # NoLimit /\ crawled[w] >= MaxPages

Init ==
    /\ frontier = EmptyStream
    /\ claimed = {}
    /\ stored = {}
    /\ extract = <<>>
    /\ pc = [w \in Worker |-> "start"]
    /\ batch = [w \in Worker |-> EmptyBatch]
    /\ outbox = [w \in Worker |-> <<>>]
    /\ idle = [w \in Worker |-> 0]
    /\ crawled = [w \in Worker |-> 0]
    /\ fetches = [p \in Page |-> 0]
    /\ discarded = {}
    /\ crashes = 0

-----------------------------------------------------------------------------
Goto(w, step) == pc' = [pc EXCEPT ![w] = step]

\* ensure_group, then _seed_frontier: every worker publishes every seed.
Start(w) ==
    /\ pc[w] = "start"
    /\ outbox' = [outbox EXCEPT ![w] = JobsAt(Seeds, 0)]
    /\ Goto(w, "seed")
    /\ UNCHANGED <<shared, batch, idle, crawled, history>>

\* One iteration of a loop that publishes jobs: seeds or outlinks.
PublishNext(w, from, to) ==
    /\ pc[w] = from
    /\ outbox[w] # <<>>
    /\ frontier' = Publish(frontier, Head(outbox[w]))
    /\ outbox' = [outbox EXCEPT ![w] = Tail(@)]
    /\ Goto(w, IF Tail(outbox[w]) = <<>> THEN to ELSE from)
    /\ UNCHANGED <<claimed, stored, extract, batch, idle, crawled, history>>

PublishSeed(w)    == PublishNext(w, "seed", "poll")
PublishOutlink(w) == PublishNext(w, "links", "ack")

\* Mutant of Receive: messages are confirmed as they are handed out.
ReceiveAutoAck(w) ==
    /\ pc[w] = "poll"
    /\ ~ReachedMaxPages(w)
    /\ HasNew(frontier)
    /\ frontier' = [Consume(frontier, BatchSize)
                       EXCEPT !.pending = frontier.pending]
    /\ batch' = [batch EXCEPT ![w] =
                    [next |-> frontier.cursor + 1,
                     last |-> LastDelivered(frontier, BatchSize)]]
    /\ idle' = [idle EXCEPT ![w] = 0]
    /\ Goto(w, "job")
    /\ UNCHANGED <<claimed, stored, extract, outbox, crawled, history>>

\* consume returned messages.
Receive(w) ==
    /\ pc[w] = "poll"
    /\ ~ReachedMaxPages(w)
    /\ HasNew(frontier)
    /\ frontier' = Consume(frontier, BatchSize)
    /\ batch' = [batch EXCEPT ![w] =
                    [next |-> frontier.cursor + 1,
                     last |-> LastDelivered(frontier, BatchSize)]]
    /\ idle' = [idle EXCEPT ![w] = 0]
    /\ Goto(w, "job")
    /\ UNCHANGED <<claimed, stored, extract, outbox, crawled, history>>

\* Mutant of IdlePoll: gives up without looking at the stream.
IdlePollBlind(w) ==
    /\ pc[w] = "poll"
    /\ ~ReachedMaxPages(w)
    /\ IdlePolls # NoLimit
    /\ idle' = [idle EXCEPT ![w] = @ + 1]
    /\ Goto(w, IF idle[w] + 1 >= IdlePolls THEN "stopped" ELSE "poll")
    /\ UNCHANGED <<shared, batch, outbox, crawled, history>>

\* Mutant of IdlePoll: an empty poll is not counted.
IdlePollUncounted(w) ==
    /\ pc[w] = "poll"
    /\ ~ReachedMaxPages(w)
    /\ ~HasNew(frontier)
    /\ IdlePolls # NoLimit
    /\ Goto(w, IF idle[w] + 1 > IdlePolls THEN "stopped" ELSE "poll")
    /\ UNCHANGED <<shared, local, history>>

\* consume timed out with nothing new: poll again, or give up.  Without a
\* limit the counter is never read, and the model does not count.
IdlePoll(w) ==
    /\ pc[w] = "poll"
    /\ ~ReachedMaxPages(w)
    /\ ~HasNew(frontier)
    /\ IdlePolls # NoLimit
    /\ idle' = [idle EXCEPT ![w] = @ + 1]
    /\ Goto(w, IF idle[w] + 1 >= IdlePolls THEN "stopped" ELSE "poll")
    /\ UNCHANGED <<shared, batch, outbox, crawled, history>>

\* The page limit ends the loop between polls, or in the middle of a batch,
\* whose other messages stay delivered and unacknowledged.
StopAtMaxPages(w) ==
    /\ pc[w] \in {"poll", "job"}
    /\ ReachedMaxPages(w)
    /\ batch' = [batch EXCEPT ![w] = EmptyBatch]
    /\ Goto(w, "stopped")
    /\ UNCHANGED <<shared, outbox, idle, crawled, history>>

\* Mutant of Claim: asks whether the page was seen and does not record it.
ClaimSeenOnly(w) ==
    /\ pc[w] = "job"
    /\ ~ReachedMaxPages(w)
    /\ Goto(w, IF PageOf(w) \in claimed THEN "ack" ELSE "robots")
    /\ UNCHANGED <<shared, local, history>>

\* try_claim (SADD): one atomic command, for this worker or for another.
Claim(w) ==
    /\ pc[w] = "job"
    /\ ~ReachedMaxPages(w)
    /\ claimed' = claimed \cup {PageOf(w)}
    /\ Goto(w, IF PageOf(w) \in claimed THEN "ack" ELSE "robots")
    /\ UNCHANGED <<frontier, stored, extract, local, history>>

\* robots.is_allowed is up to the site.
RobotsAllow(w) ==
    /\ pc[w] = "robots"
    /\ Goto(w, "fetch")
    /\ UNCHANGED <<shared, local, history>>

Discard(w) ==
    /\ discarded' = discarded \cup {PageOf(w)}
    /\ Goto(w, "ack")
    /\ UNCHANGED <<shared, local, crashes>>

RobotsRefuse(w) ==
    /\ pc[w] = "robots"
    /\ Discard(w)
    /\ UNCHANGED fetches

\* fetcher.fetch requests the page, and answers or raises FetchError.
CountFetch(w) == fetches' = [fetches EXCEPT ![PageOf(w)] = @ + 1]

FetchFails(w) ==
    /\ pc[w] = "fetch"
    /\ CountFetch(w)
    /\ Discard(w)

\* Mutant of FetchSucceeds: the write of the object is skipped.
FetchSucceedsNoPut(w) ==
    /\ pc[w] = "fetch"
    /\ CountFetch(w)
    /\ \E links \in {Links[JobOf(w).url], <<>>} :
          outbox' = [outbox EXCEPT ![w] = JobsAt(links, JobOf(w).depth + 1)]
    /\ Goto(w, "announce")
    /\ UNCHANGED <<shared, batch, idle, crawled, discarded, crashes>>

\* An HTML body that cannot be parsed has no outlinks
\* (_extract_outlinks_safely).
FetchSucceeds(w) ==
    /\ pc[w] = "fetch"
    /\ CountFetch(w)
    /\ \E links \in {Links[JobOf(w).url], <<>>} :
          outbox' = [outbox EXCEPT ![w] = JobsAt(links, JobOf(w).depth + 1)]
    /\ Goto(w, "put")
    /\ UNCHANGED <<shared, batch, idle, crawled, discarded, crashes>>

\* _write_page: the object first.
PutPage(w) ==
    /\ pc[w] = "put"
    /\ stored' = stored \cup
          {[page  |-> PageOf(w),
            depth |-> JobOf(w).depth,
            links |-> [i \in DOMAIN outbox[w] |-> outbox[w][i].url]]}
    /\ Goto(w, "announce")
    /\ UNCHANGED <<frontier, claimed, extract, local, history>>

\* Mutant of Announce: the depth limit is off by one.
AnnounceShallow(w) ==
    /\ pc[w] = "announce"
    /\ extract' = Append(extract, PageOf(w))
    /\ crawled' = [crawled EXCEPT ![w] = @ + 1]
    /\ IF JobOf(w).depth < MaxDepth - 1 /\ outbox[w] # <<>>
       THEN Goto(w, "links") /\ UNCHANGED outbox
       ELSE Goto(w, "ack") /\ outbox' = [outbox EXCEPT ![w] = <<>>]
    /\ UNCHANGED <<frontier, claimed, stored, batch, idle, history>>

\* _write_page: then the message to the extraction, and the page counts.
\* Outlinks of a page at the maximum depth are not enqueued.
Announce(w) ==
    /\ pc[w] = "announce"
    /\ extract' = Append(extract, PageOf(w))
    /\ crawled' = [crawled EXCEPT ![w] = @ + 1]
    /\ IF JobOf(w).depth < MaxDepth /\ outbox[w] # <<>>
       THEN Goto(w, "links") /\ UNCHANGED outbox
       ELSE Goto(w, "ack") /\ outbox' = [outbox EXCEPT ![w] = <<>>]
    /\ UNCHANGED <<frontier, claimed, stored, batch, idle, history>>

\* Mutant of AckCurrent: the first message confirms its whole batch.
AckWholeBatch(w) ==
    /\ pc[w] = "ack"
    /\ frontier' = [frontier EXCEPT !.pending =
                       @ \ (Current(w) .. batch[w].last)]
    /\ batch' = [batch EXCEPT ![w].next = @ + 1]
    /\ Goto(w, IF Current(w) = batch[w].last THEN "poll" ELSE "job")
    /\ UNCHANGED <<claimed, stored, extract, outbox, idle, crawled, history>>

\* The last call for a message; the loop goes on with the next one.
AckCurrent(w) ==
    /\ pc[w] = "ack"
    /\ frontier' = Ack(frontier, Current(w))
    /\ batch' = [batch EXCEPT ![w].next = @ + 1]
    /\ Goto(w, IF Current(w) = batch[w].last THEN "poll" ELSE "job")
    /\ UNCHANGED <<claimed, stored, extract, outbox, idle, crawled, history>>

\* The process dies, or an error of a service ends run().
Crash(w) ==
    /\ pc[w] \notin {"stopped", "crashed"}
    /\ crashes < MaxCrashes
    /\ crashes' = crashes + 1
    /\ batch' = [batch EXCEPT ![w] = EmptyBatch]
    /\ outbox' = [outbox EXCEPT ![w] = <<>>]
    /\ Goto(w, "crashed")
    /\ UNCHANGED <<shared, idle, crawled, fetches, discarded>>

\* restart: on-failure starts a new process, with nothing remembered.
Restart(w) ==
    /\ pc[w] = "crashed"
    /\ idle' = [idle EXCEPT ![w] = 0]
    /\ crawled' = [crawled EXCEPT ![w] = 0]
    /\ Goto(w, "start")
    /\ UNCHANGED <<shared, batch, outbox, history>>

-----------------------------------------------------------------------------
Step(w) ==
    \/ Start(w) \/ PublishSeed(w) \/ PublishOutlink(w)
    \/ Receive(w) \/ IdlePoll(w) \/ StopAtMaxPages(w)
    \/ Claim(w) \/ RobotsAllow(w) \/ RobotsRefuse(w)
    \/ FetchFails(w) \/ FetchSucceeds(w) \/ PutPage(w) \/ Announce(w)
    \/ AckCurrent(w)

Next == \E w \in Worker : Step(w) \/ Crash(w) \/ Restart(w)

Spec == Init /\ [][Next]_vars

\* A process that is not blocked runs, and the supervisor restarts a worker
\* that failed.  Nothing forces a crash.
Fairness == \A w \in Worker : WF_vars(Step(w)) /\ WF_vars(Restart(w))

FairSpec == Spec /\ Fairness

-----------------------------------------------------------------------------
Announced == {extract[i] : i \in DOMAIN extract}
Entries   == {frontier.entries[i] : i \in DOMAIN frontier.entries}

\* Some message for the page was handed out and never confirmed.
HasPending(p) ==
    \E i \in frontier.pending : Canon[frontier.entries[i].url] = p

\* A site never gets the same page requested twice: not by two workers that
\* meet on it, not for two spellings of its URL, not for the duplicates that
\* uncoordinated seeding publishes, and not by a worker that restarts.
FetchedOnce == \A p \in Page : fetches[p] <= 1

\* Work that was claimed and did not reach an end (page announced to the
\* extraction, or discarded) is still in the pending list of the group, which
\* is where a person can find what a dead worker left behind.
UnfinishedIsPending ==
    \A p \in claimed : p \in Announced \cup discarded \/ HasPending(p)

\* A message is confirmed only once its page is claimed by someone: an
\* acknowledgement never drops a URL nobody took.
AckedIsClaimed ==
    \A i \in Acked(frontier) : Canon[frontier.entries[i].url] \in claimed

\* The extraction is never told about a page that is not in storage.
AnnouncedIsStored == \A p \in Announced : \E s \in stored : s.page = p

\* A stored page above the maximum depth has all its links in the frontier
\* one level deeper, unless its own message is still pending.
FrontierClosed ==
    \A s \in stored : s.depth < MaxDepth =>
        \/ HasPending(s.page)
        \/ \A i \in DOMAIN s.links :
              [url |-> s.links[i], depth |-> s.depth + 1] \in Entries

\* Idle shutdown is a sound end of the crawl: when every worker has stopped
\* by itself, none crashed and none met its page limit, nothing is left in
\* the frontier, neither undelivered nor unconfirmed.
IdleShutdownDrains ==
    (/\ crashes = 0
     /\ \A w \in Worker : pc[w] = "stopped" /\ ~ReachedMaxPages(w))
        => ~HasNew(frontier) /\ frontier.pending = {}

\* With an idle limit the crawl ends: every worker stops, whatever cycles the
\* links have.
EveryWorkerStops == <>[](\A w \in Worker : pc[w] = "stopped")
=============================================================================
