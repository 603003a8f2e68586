------------------------- MODULE CrawlWorkerProofs --------------------------
(***************************************************************************)
(* What holds of CrawlWorker for any number of workers, any site and any   *)
(* limits: types; the safety of claims, fetches and acknowledgements; that *)
(* no link of a stored page is lost; and that an idle shutdown leaves no   *)
(* work behind.                                                            *)
(***************************************************************************)
EXTENDS CrawlWorker, SequenceTheorems, TLAPS

\* Publishing keeps a stream well typed.
LEMMA PublishType ==
    ASSUME NEW Payload, NEW s \in StreamOf(Payload), NEW m \in Payload
    PROVE  Publish(s, m) \in StreamOf(Payload)
<1>1. Append(s.entries, m) \in Seq(Payload)
  BY AppendProperties DEF StreamOf
<1> QED
  BY <1>1 DEF Publish, StreamOf

\* Consuming keeps a stream well typed.
LEMMA ConsumeType ==
    ASSUME NEW Payload, NEW s \in StreamOf(Payload), NEW count \in Nat
    PROVE  /\ Consume(s, count) \in StreamOf(Payload)
           /\ LastDelivered(s, count) \in Nat
<1>1. Len(s.entries) \in Nat /\ s.cursor \in Nat /\ s.pending \subseteq Nat
  BY DEF StreamOf
<1>2. LastDelivered(s, count) \in Nat
  BY <1>1 DEF LastDelivered
<1>3. (s.cursor + 1) .. LastDelivered(s, count) \subseteq Nat
  BY <1>1, <1>2
<1> QED
  BY <1>1, <1>2, <1>3 DEF Consume, StreamOf

\* Confirming keeps a stream well typed.
LEMMA AckType ==
    ASSUME NEW Payload, NEW s \in StreamOf(Payload), NEW id
    PROVE  Ack(s, id) \in StreamOf(Payload)
BY DEF Ack, StreamOf

-----------------------------------------------------------------------------

\* A list of URLs at a depth is a list of jobs, as long as the list of URLs.
LEMMA JobsAtType ==
    ASSUME NEW urls \in Seq(Url), NEW depth \in Nat
    PROVE  JobsAt(urls, depth) \in Seq(Job)
<1>1. PICK n \in Nat : urls \in [1 .. n -> Url]
  OBVIOUS
<1>2. JobsAt(urls, depth) \in [1 .. n -> Job]
  BY <1>1 DEF JobsAt, Job
<1> QED
  BY <1>2

\* The URLs of a list of jobs are a list of URLs.
LEMMA UrlsType ==
    ASSUME NEW jobs \in Seq(Job)
    PROVE  [i \in DOMAIN jobs |-> jobs[i].url] \in Seq(Url)
<1>1. PICK n \in Nat : jobs \in [1 .. n -> Job]
  OBVIOUS
<1>2. [i \in DOMAIN jobs |-> jobs[i].url] \in [1 .. n -> Url]
  BY <1>1 DEF Job
<1> QED
  BY <1>2

-----------------------------------------------------------------------------
\* A worker at a message is at one the frontier holds.
Busy == {"job", "robots", "fetch", "put", "announce", "links", "ack"}

StreamInv ==
    /\ frontier.cursor <= Len(frontier.entries)
    /\ frontier.pending \subseteq 1 .. frontier.cursor

BatchInv ==
    \A w \in Worker : pc[w] \in Busy =>
        /\ 1 <= batch[w].next
        /\ batch[w].next <= batch[w].last
        /\ batch[w].last <= frontier.cursor

Typed == TypeOK /\ StreamInv /\ BatchInv

\* The job and the page of a worker at a message are a job and a page.
LEMMA CurrentType ==
    ASSUME Typed, NEW w \in Worker, pc[w] \in Busy
    PROVE  /\ Current(w) \in 1 .. Len(frontier.entries)
           /\ JobOf(w) \in Job
           /\ JobOf(w).url \in Url
           /\ JobOf(w).depth \in Nat
           /\ PageOf(w) \in Page
<1>1. Current(w) \in 1 .. Len(frontier.entries)
  BY DEF Typed, TypeOK, StreamInv, BatchInv, StreamOf, Current
<1>2. JobOf(w) \in Job
  BY <1>1, ElementOfSeq DEF Typed, TypeOK, StreamOf, JobOf
<1> QED
  BY <1>1, <1>2, CrawlAssumption DEF Job, PageOf

\* The initial state is well typed.
LEMMA TypedInit == Init => Typed
<1> SUFFICES ASSUME Init PROVE Typed
  OBVIOUS
<1>1. frontier \in StreamOf(Job)
  BY DEF Init, EmptyStream, StreamOf
<1>2. TypeOK
  BY <1>1 DEF Init, TypeOK, EmptyBatch, Steps
<1> QED
  BY <1>2 DEF Init, Typed, StreamInv, BatchInv, EmptyStream, Busy

\* What consume hands out when there is something new.
LEMMA DeliveredBounds ==
    ASSUME TypeOK, StreamInv, HasNew(frontier)
    PROVE  /\ LastDelivered(frontier, BatchSize) \in Nat
           /\ frontier.cursor < LastDelivered(frontier, BatchSize)
           /\ LastDelivered(frontier, BatchSize) <= Len(frontier.entries)
<1>1. Len(frontier.entries) \in Nat /\ frontier.cursor \in Nat
  BY DEF TypeOK, StreamOf
<1> QED
  BY <1>1, CrawlAssumption DEF LastDelivered, HasNew, StreamInv

\* Every step of the crawl keeps the types and the bounds of the streams.
LEMMA TypedStep ==
    ASSUME Typed, NEW w \in Worker, Step(w) \/ Crash(w) \/ Restart(w)
    PROVE  Typed'
<1> USE DEF Typed, Goto
<1>1. CASE Start(w)
  <2>1. JobsAt(Seeds, 0) \in Seq(Job)
    BY JobsAtType, CrawlAssumption
  <2> QED
    BY <1>1, <2>1 DEF Start, TypeOK, Steps, StreamInv, BatchInv, Busy,
                      shared, history
<1>2. ASSUME NEW from \in {"seed", "links"}, NEW to \in {"poll", "ack"},
             from = "links" <=> to = "ack", PublishNext(w, from, to)
      PROVE  Typed'
  <2>1. Head(outbox[w]) \in Job /\ Tail(outbox[w]) \in Seq(Job)
    BY <1>2, HeadTailProperties DEF PublishNext, TypeOK
  <2>2. frontier' \in StreamOf(Job)
    BY <1>2, <2>1, PublishType DEF PublishNext, TypeOK
  <2>3. TypeOK'
    BY <1>2, <2>1, <2>2 DEF PublishNext, TypeOK, Steps, history
  <2>4. /\ frontier'.cursor = frontier.cursor
        /\ frontier'.pending = frontier.pending
        /\ Len(frontier'.entries) = Len(frontier.entries) + 1
    BY <1>2, <2>1, AppendProperties
       DEF PublishNext, Publish, TypeOK, StreamOf
  <2>5. StreamInv'
    BY <2>4 DEF StreamInv, TypeOK, StreamOf
  <2>6. BatchInv'
    BY <1>2, <2>4 DEF PublishNext, BatchInv, Busy, TypeOK, Steps
  <2> QED
    BY <2>3, <2>5, <2>6
<1>3. CASE Receive(w)
  <2> DEFINE last == LastDelivered(frontier, BatchSize)
  <2>1. /\ last \in Nat
        /\ frontier.cursor < last
        /\ last <= Len(frontier.entries)
    BY <1>3, DeliveredBounds DEF Receive
  <2>2. frontier' \in StreamOf(Job)
    BY <1>3, ConsumeType, CrawlAssumption DEF Receive, TypeOK
  <2>3. TypeOK'
    <3>1. frontier.cursor + 1 \in Nat
      BY DEF TypeOK, StreamOf
    <3>2. batch' \in [Worker -> [next: Nat, last: Nat]]
      BY <1>3, <2>1, <3>1 DEF Receive, TypeOK
    <3> QED
      BY <1>3, <2>2, <3>2 DEF Receive, TypeOK, Steps, history
  <2>4. /\ frontier'.cursor = last
        /\ frontier'.pending
              = frontier.pending \cup ((frontier.cursor + 1) .. last)
        /\ frontier'.entries = frontier.entries
    BY <1>3 DEF Receive, Consume, TypeOK, StreamOf
  <2>5. frontier.cursor \in Nat
    BY DEF TypeOK, StreamOf
  <2>6. StreamInv'
    BY <2>1, <2>4, <2>5 DEF StreamInv
  <2>7. BatchInv'
    <3> SUFFICES ASSUME NEW v \in Worker, pc'[v] \in Busy
                 PROVE  /\ 1 <= batch'[v].next
                        /\ batch'[v].next <= batch'[v].last
                        /\ batch'[v].last <= frontier'.cursor
      BY DEF BatchInv
    <3>1. CASE v = w
      <4>1. batch'[v] = [next |-> frontier.cursor + 1, last |-> last]
        BY <1>3, <3>1 DEF Receive, TypeOK
      <4> QED
        BY <2>1, <2>4, <2>5, <4>1
    <3>2. CASE v # w
      <4>1. batch'[v] = batch[v] /\ pc'[v] = pc[v]
        BY <1>3, <3>2 DEF Receive, TypeOK
      <4>2. batch[v].last \in Nat
        BY DEF TypeOK
      <4> QED
        BY <2>1, <2>4, <2>5, <4>1, <4>2 DEF BatchInv
    <3> QED
      BY <3>1, <3>2
  <2> QED
    BY <2>3, <2>6, <2>7
<1>4. CASE IdlePoll(w)
  BY <1>4 DEF IdlePoll, TypeOK, Steps, StreamInv, BatchInv, Busy,
              shared, history
<1>5. CASE StopAtMaxPages(w)
  BY <1>5 DEF StopAtMaxPages, EmptyBatch, TypeOK, Steps, StreamInv,
              BatchInv, Busy, shared, history
<1>6. CASE Claim(w)
  <2>1. PageOf(w) \in Page
    BY <1>6, CurrentType DEF Claim, Busy
  <2> QED
    BY <1>6, <2>1 DEF Claim, TypeOK, Steps, StreamInv, BatchInv, Busy,
                      local, history
<1>7. CASE RobotsAllow(w)
  BY <1>7 DEF RobotsAllow, TypeOK, Steps, StreamInv, BatchInv, Busy,
              shared, local, history
<1>8. CASE RobotsRefuse(w)
  <2>1. PageOf(w) \in Page
    BY <1>8, CurrentType DEF RobotsRefuse, Busy
  <2> QED
    BY <1>8, <2>1 DEF RobotsRefuse, Discard, TypeOK, Steps, StreamInv,
                      BatchInv, Busy, shared, local
<1>9. CASE FetchFails(w)
  <2>1. PageOf(w) \in Page
    BY <1>9, CurrentType DEF FetchFails, Busy
  <2> QED
    BY <1>9, <2>1 DEF FetchFails, CountFetch, Discard, TypeOK, Steps,
                      StreamInv, BatchInv, Busy, shared, local
<1>10. CASE FetchSucceeds(w)
  <2>1. /\ PageOf(w) \in Page
        /\ JobOf(w).url \in Url
        /\ JobOf(w).depth + 1 \in Nat
    BY <1>10, CurrentType DEF FetchSucceeds, Busy
  <2>2. PICK links \in {Links[JobOf(w).url], <<>>} :
            outbox' = [outbox EXCEPT ![w] =
                          JobsAt(links, JobOf(w).depth + 1)]
    BY <1>10 DEF FetchSucceeds
  <2>3. links \in Seq(Url)
    <3>1. Links[JobOf(w).url] \in Seq(Url)
      BY <2>1, CrawlAssumption
    <3>2. <<>> \in Seq(Url)
      OBVIOUS
    <3> QED
      BY <2>2, <3>1, <3>2
  <2>4. JobsAt(links, JobOf(w).depth + 1) \in Seq(Job)
    BY <2>1, <2>3, JobsAtType
  <2>5. outbox' \in [Worker -> Seq(Job)]
    BY <2>2, <2>4 DEF TypeOK
  <2> QED
    BY <1>10, <2>1, <2>5 DEF FetchSucceeds, CountFetch, TypeOK, Steps,
                      StreamInv, BatchInv, Busy, shared
<1>11. CASE PutPage(w)
  <2>1. PageOf(w) \in Page /\ JobOf(w).depth \in Nat
    BY <1>11, CurrentType DEF PutPage, Busy
  <2>2. [i \in DOMAIN outbox[w] |-> outbox[w][i].url] \in Seq(Url)
    BY UrlsType DEF TypeOK
  <2>3. stored' \subseteq StoredPage
    <3>1. [page |-> PageOf(w), depth |-> JobOf(w).depth,
           links |-> [i \in DOMAIN outbox[w] |-> outbox[w][i].url]]
             \in StoredPage
      BY <2>1, <2>2 DEF StoredPage
    <3> HIDE DEF StoredPage
    <3> QED
      BY <1>11, <3>1 DEF PutPage, TypeOK
  <2> QED
    BY <1>11, <2>3 DEF PutPage, TypeOK, Steps, StreamInv, BatchInv, Busy,
                       local, history
<1>12. CASE Announce(w)
  <2>1. PageOf(w) \in Page
    BY <1>12, CurrentType DEF Announce, Busy
  <2>2. extract' \in Seq(Page)
    BY <1>12, <2>1, AppendProperties DEF Announce, TypeOK
  <2>3. outbox' \in [Worker -> Seq(Job)]
    <3>1. <<>> \in Seq(Job)
      OBVIOUS
    <3>2. outbox' = outbox \/ outbox' = [outbox EXCEPT ![w] = <<>>]
      BY <1>12 DEF Announce
    <3> QED
      BY <3>1, <3>2 DEF TypeOK
  <2>4. /\ pc' = [pc EXCEPT ![w] = "links"] \/ pc' = [pc EXCEPT ![w] = "ack"]
        /\ pc[w] = "announce"
    BY <1>12 DEF Announce
  <2>5. /\ crawled' = [crawled EXCEPT ![w] = @ + 1]
        /\ UNCHANGED <<frontier, claimed, stored, batch, idle, history>>
    BY <1>12 DEF Announce
  <2>6. TypeOK'
    <3>1. pc' \in [Worker -> Steps]
      BY <2>4 DEF TypeOK, Steps
    <3>2. crawled' \in [Worker -> Nat]
      BY <2>5 DEF TypeOK
    <3> QED
      BY <2>2, <2>3, <2>5, <3>1, <3>2 DEF TypeOK, history
  <2>7. StreamInv' /\ BatchInv'
    BY <2>4, <2>5 DEF StreamInv, BatchInv, Busy, TypeOK
  <2> QED
    BY <2>6, <2>7
<1>13. CASE AckCurrent(w)
  <2>1. frontier' \in StreamOf(Job)
    BY <1>13, AckType DEF AckCurrent, TypeOK
  <2>2. /\ frontier'.cursor = frontier.cursor
        /\ frontier'.entries = frontier.entries
        /\ frontier'.pending \subseteq frontier.pending
    BY <1>13 DEF AckCurrent, Ack, TypeOK, StreamOf
  <2>3. TypeOK'
    <3>1. batch' \in [Worker -> [next: Nat, last: Nat]]
      <4>1. batch[w].next + 1 \in Nat /\ batch[w].last \in Nat
        BY DEF TypeOK
      <4>2. [batch[w] EXCEPT !.next = @ + 1] \in [next: Nat, last: Nat]
        BY <4>1 DEF TypeOK
      <4> QED
        BY <1>13, <4>2 DEF AckCurrent, TypeOK
    <3>2. pc' \in [Worker -> Steps]
      BY <1>13 DEF AckCurrent, TypeOK, Steps
    <3> QED
      BY <1>13, <2>1, <3>1, <3>2 DEF AckCurrent, TypeOK, history
  <2>4. StreamInv'
    BY <2>2 DEF StreamInv
  <2>5. BatchInv'
    BY <1>13, <2>2 DEF AckCurrent, Current, BatchInv, TypeOK, Busy
  <2> QED
    BY <2>3, <2>4, <2>5
<1>14. CASE Crash(w)
  BY <1>14 DEF Crash, EmptyBatch, TypeOK, Steps, StreamInv, BatchInv, Busy,
               shared
<1>15. CASE Restart(w)
  BY <1>15 DEF Restart, TypeOK, Steps, StreamInv, BatchInv, Busy,
               shared, history
<1> QED
  BY <1>1, <1>2, <1>3, <1>4, <1>5, <1>6, <1>7, <1>8, <1>9, <1>10, <1>11,
     <1>12, <1>13, <1>14, <1>15
     DEF Step, PublishSeed, PublishOutlink

\* Types: whatever the workers, the site and the limits.
LEMMA TypedInvariant == Spec => []Typed
<1>1. Typed /\ [Next]_vars => Typed'
  <2>1. ASSUME Typed, UNCHANGED vars PROVE Typed'
    BY <2>1 DEF Typed, TypeOK, StreamInv, BatchInv, vars, shared, local,
                history
  <2> QED
    BY <2>1, TypedStep DEF Next
<1> QED
  BY TypedInit, <1>1, PTL DEF Spec

\* The state of the crawl keeps its types.
THEOREM CrawlTypes == Spec => []TypeOK
<1>1. Typed => TypeOK
  BY DEF Typed
<1> QED
  BY TypedInvariant, <1>1, PTL

-----------------------------------------------------------------------------
(***************************************************************************)
(* Safety.  The promises of CrawlWorker are not inductive: that an         *)
(* acknowledgement loses no unfinished page (UnfinishedIsPending) needs to *)
(* know WHICH pending message keeps a page findable.  A message that was   *)
(* skipped as a duplicate is about to be confirmed and cannot be it.  The  *)
(* message is one no live worker holds, or the very one its worker is      *)
(* working on (OwnerInv); batches of different workers share no message    *)
(* (HeldInv); and a fetch is only ever started by the single worker that   *)
(* won the claim (FetchInv).                                               *)
(***************************************************************************)
Working == {"robots", "fetch", "put", "announce", "links"}

Held(w) == batch[w].next .. batch[w].last

\* A live worker's messages are pending, and nobody else's.
HeldInv ==
    /\ \A w \in Worker : pc[w] \in Busy => Held(w) \subseteq frontier.pending
    /\ \A v, w \in Worker :
          v # w /\ pc[v] \in Busy /\ pc[w] \in Busy => Held(v) \cap Held(w) = {}

\* The page of a worker past its claim is claimed.
ClaimInv ==
    \A w \in Worker : pc[w] \in Working \cup {"ack"} => PageOf(w) \in claimed

\* Only claimed pages were fetched; those about to be fetched were not, and
\* each of them is in the hands of one worker.
FetchInv ==
    /\ FetchedOnce
    /\ \A p \in Page : fetches[p] > 0 => p \in claimed
    /\ \A w \in Worker : pc[w] \in {"robots", "fetch"} => fetches[PageOf(w)] = 0
    /\ \A v, w \in Worker :
          (/\ v # w
           /\ pc[v] \in {"robots", "fetch"}
           /\ pc[w] \in {"robots", "fetch"}) => PageOf(v) # PageOf(w)

\* The object is in storage before its message, and its message is published
\* before its outlinks.
WriteInv ==
    /\ AnnouncedIsStored
    /\ \A w \in Worker :
          pc[w] = "announce" => \E s \in stored : s.page = PageOf(w)
    /\ \A w \in Worker : pc[w] = "links" => PageOf(w) \in Announced

\* Message i keeps page p findable.
Keeps(i, p) ==
    /\ i \in frontier.pending
    /\ Canon[frontier.entries[i].url] = p
    /\ \A w \in Worker : pc[w] \in Busy /\ i \in Held(w) =>
           i = Current(w) /\ pc[w] \in Working

OwnerInv ==
    \A p \in claimed :
        p \in Announced \cup discarded \/ \E i \in frontier.pending : Keeps(i, p)

\* The inductive invariant.
CrawlInv ==
    /\ Typed
    /\ HeldInv
    /\ ClaimInv
    /\ FetchInv
    /\ WriteInv
    /\ OwnerInv
    /\ AckedIsClaimed

\* What no step changes: published messages, the other workers, and whatever
\* was claimed, stored, announced or discarded.
LEMMA Frame ==
    ASSUME Typed, NEW w \in Worker, Step(w) \/ Crash(w) \/ Restart(w)
    PROVE  /\ \A i \in 1 .. Len(frontier.entries) :
                 frontier'.entries[i] = frontier.entries[i]
           /\ \A v \in Worker \ {w} :
                 pc'[v] = pc[v] /\ batch'[v] = batch[v] /\ crawled'[v] = crawled[v]
           /\ claimed \subseteq claimed'
           /\ stored \subseteq stored'
           /\ Announced \subseteq Announced'
           /\ discarded \subseteq discarded'
<1> USE DEF Goto
<1>1. ASSUME NEW from \in {"seed", "links"}, NEW to \in {"poll", "ack"},
             PublishNext(w, from, to)
      PROVE  \A i \in 1 .. Len(frontier.entries) :
                 frontier'.entries[i] = frontier.entries[i]
  <2>1. Head(outbox[w]) \in Job
    BY <1>1, HeadTailProperties DEF PublishNext, Typed, TypeOK
  <2>2. frontier'.entries = Append(frontier.entries, Head(outbox[w]))
    BY <1>1 DEF PublishNext, Publish, Typed, TypeOK, StreamOf
  <2> QED
    BY <2>1, <2>2, AppendProperties DEF Typed, TypeOK, StreamOf
<1>2. \A i \in 1 .. Len(frontier.entries) :
          frontier'.entries[i] = frontier.entries[i]
  <2>1. ASSUME Receive(w) PROVE frontier'.entries = frontier.entries
    BY <2>1 DEF Receive, Consume, Typed, TypeOK, StreamOf
  <2>2. ASSUME AckCurrent(w) PROVE frontier'.entries = frontier.entries
    BY <2>2 DEF AckCurrent, Ack, Typed, TypeOK, StreamOf
  <2> QED
    BY <1>1, <2>1, <2>2
       DEF Step, PublishSeed, PublishOutlink, Start, IdlePoll,
           StopAtMaxPages, Claim, RobotsAllow, RobotsRefuse, FetchFails,
           FetchSucceeds, PutPage, Announce, Crash, Restart, Discard, shared
<1>3. \A v \in Worker \ {w} :
          pc'[v] = pc[v] /\ batch'[v] = batch[v] /\ crawled'[v] = crawled[v]
  BY DEF Typed, TypeOK, Step, Start, PublishSeed, PublishOutlink, PublishNext,
         Receive, IdlePoll, StopAtMaxPages, Claim, RobotsAllow, RobotsRefuse,
         FetchFails, FetchSucceeds, PutPage, Announce, AckCurrent, Crash,
         Restart, Discard, local
<1>4. claimed \subseteq claimed' /\ stored \subseteq stored' /\ discarded \subseteq discarded'
  BY DEF Step, Start, PublishSeed, PublishOutlink, PublishNext,
         Receive, IdlePoll, StopAtMaxPages, Claim, RobotsAllow, RobotsRefuse,
         FetchFails, FetchSucceeds, PutPage, Announce, AckCurrent, Crash,
         Restart, Discard, shared, history
<1>5. Announced \subseteq Announced'
  <2>1. ASSUME Announce(w) PROVE Announced \subseteq Announced'
    <3>1. PageOf(w) \in Page
      BY <2>1, CurrentType DEF Announce, Busy
    <3>2. /\ Len(extract') = Len(extract) + 1
          /\ \A i \in 1 .. Len(extract) : extract'[i] = extract[i]
          /\ extract \in Seq(Page) /\ extract' \in Seq(Page)
      BY <2>1, <3>1, AppendProperties DEF Announce, Typed, TypeOK
    <3> QED
      BY <3>2 DEF Announced
  <2>2. ASSUME UNCHANGED extract PROVE Announced \subseteq Announced'
    BY <2>2 DEF Announced
  <2> QED
    BY <2>1, <2>2
       DEF Step, Start, PublishSeed, PublishOutlink, PublishNext, Receive,
           IdlePoll, StopAtMaxPages, Claim, RobotsAllow, RobotsRefuse,
           FetchFails, FetchSucceeds, PutPage, AckCurrent, Crash, Restart,
           Discard, shared
<1> QED
  BY <1>2, <1>3, <1>4, <1>5

\* The page of a worker that stays at its message stays the same.
LEMMA PageStable ==
    ASSUME Typed, NEW w \in Worker, Step(w) \/ Crash(w) \/ Restart(w),
           NEW v \in Worker, pc[v] \in Busy, batch'[v] = batch[v]
    PROVE  PageOf(v)' = PageOf(v)
<1>1. Current(v) \in 1 .. Len(frontier.entries)
  BY CurrentType
<1>2. frontier'.entries[Current(v)] = frontier.entries[Current(v)]
  BY <1>1, Frame
<1>3. Current(v)' = Current(v)
  BY DEF Current
<1> QED
  BY <1>2, <1>3 DEF PageOf, JobOf

\* A worker is past its claim only at the message it was at before.
LEMMA StaysAtMessage ==
    ASSUME Typed, NEW w \in Worker, Step(w) \/ Crash(w) \/ Restart(w),
           pc'[w] \in Working \cup {"ack"}
    PROVE  /\ batch'[w] = batch[w]
           /\ pc[w] \in Working \/ (Claim(w) /\ pc[w] = "job")
<1> USE DEF Typed, TypeOK, Goto, Working
<1>1. ASSUME Claim(w) \/ RobotsAllow(w) \/ RobotsRefuse(w) \/ FetchFails(w)
              \/ FetchSucceeds(w) \/ PutPage(w) \/ Announce(w)
              \/ PublishOutlink(w)
      PROVE  /\ batch'[w] = batch[w]
             /\ pc[w] \in Working \/ (Claim(w) /\ pc[w] = "job")
  BY <1>1 DEF Claim, RobotsAllow, RobotsRefuse, FetchFails, FetchSucceeds,
              PutPage, Announce, Discard, PublishOutlink, PublishNext, local
<1>2. ASSUME Start(w) \/ PublishSeed(w) \/ Receive(w) \/ IdlePoll(w)
              \/ StopAtMaxPages(w) \/ AckCurrent(w) \/ Crash(w) \/ Restart(w)
      PROVE  pc'[w] \notin Working \cup {"ack"}
  BY <1>2 DEF Start, PublishSeed, PublishNext, Receive, IdlePoll,
              StopAtMaxPages, AckCurrent, Crash, Restart
<1> QED
  BY <1>1, <1>2 DEF Step

\* Receiving: the new batch is what lies between the cursors.
LEMMA ReceiveEffect ==
    ASSUME Typed, NEW w \in Worker, Receive(w)
    PROVE  /\ frontier'.cursor \in Nat
           /\ frontier.cursor < frontier'.cursor
           /\ Held(w)' = (frontier.cursor + 1) .. frontier'.cursor
           /\ frontier'.pending = frontier.pending \cup Held(w)'
<1>1. frontier' = Consume(frontier, BatchSize)
  BY DEF Receive
<1>2. /\ frontier'.cursor = LastDelivered(frontier, BatchSize)
      /\ frontier'.pending = frontier.pending
            \cup ((frontier.cursor + 1) .. frontier'.cursor)
  BY <1>1 DEF Consume, Typed, TypeOK, StreamOf
<1>3. Held(w)' = (frontier.cursor + 1) .. frontier'.cursor
  BY <1>2 DEF Receive, Held, Typed, TypeOK
<1> QED
  BY <1>2, <1>3, DeliveredBounds DEF Receive, Typed

\* Confirming: the message leaves the pending ones and the worker's batch.
LEMMA AckEffect ==
    ASSUME Typed, NEW w \in Worker, AckCurrent(w)
    PROVE  /\ pc[w] = "ack" /\ pc[w] \in Busy
           /\ Current(w) \in Held(w)
           /\ Held(w)' = Held(w) \ {Current(w)}
           /\ frontier'.pending = frontier.pending \ {Current(w)}
           /\ frontier'.cursor = frontier.cursor
<1>1. pc[w] = "ack" /\ pc[w] \in Busy
  BY DEF AckCurrent, Busy
<1>2. /\ batch[w].next \in Nat /\ batch[w].last \in Nat
      /\ batch[w].next <= batch[w].last
  BY <1>1 DEF Typed, TypeOK, BatchInv
<1>3. batch'[w].next = batch[w].next + 1 /\ batch'[w].last = batch[w].last
  BY DEF AckCurrent, Typed, TypeOK
<1>4. /\ frontier'.pending = frontier.pending \ {Current(w)}
      /\ frontier'.cursor = frontier.cursor
  BY DEF AckCurrent, Ack, Typed, TypeOK, StreamOf
<1> QED
  BY <1>1, <1>2, <1>3, <1>4 DEF Held, Current

\* Every other step leaves the group alone, and no worker gains messages.
LEMMA GroupUnchanged ==
    ASSUME Typed, NEW w \in Worker, Step(w) \/ Crash(w) \/ Restart(w),
           ~Receive(w), ~AckCurrent(w)
    PROVE  /\ frontier'.pending = frontier.pending
           /\ frontier'.cursor = frontier.cursor
           /\ pc'[w] \in Busy => pc[w] \in Busy /\ batch'[w] = batch[w]
<1>1. CASE PublishSeed(w) \/ PublishOutlink(w)
  <2>1. /\ frontier'.pending = frontier.pending
        /\ frontier'.cursor = frontier.cursor
    BY <1>1 DEF PublishSeed, PublishOutlink, PublishNext, Publish,
                Typed, TypeOK, StreamOf
  <2>2. pc'[w] \in Busy => pc[w] \in Busy /\ batch'[w] = batch[w]
    BY <1>1 DEF PublishSeed, PublishOutlink, PublishNext, Goto, Busy,
                Typed, TypeOK
  <2> QED
    BY <2>1, <2>2
<1>2. CASE ~(PublishSeed(w) \/ PublishOutlink(w))
  BY <1>2
     DEF Step, Start, IdlePoll, StopAtMaxPages, Claim, RobotsAllow,
         RobotsRefuse, FetchFails, FetchSucceeds, PutPage, Announce, Crash,
         Restart, Discard, shared, local, Goto, Busy, Typed, TypeOK
<1> QED
  BY <1>1, <1>2

\* Batches stay pending and disjoint.
LEMMA HeldStep ==
    ASSUME Typed, HeldInv, NEW w \in Worker, Step(w) \/ Crash(w) \/ Restart(w)
    PROVE  HeldInv'
<1>1. \A v \in Worker \ {w} : pc'[v] = pc[v] /\ Held(v)' = Held(v)
  BY Frame DEF Held
<1>2. CASE Receive(w)
  <2>1. frontier.cursor \in Nat /\ frontier.pending \subseteq 1 .. frontier.cursor
    BY DEF Typed, StreamInv, TypeOK, StreamOf
  <2>2. frontier.pending \cap Held(w)' = {}
    BY <1>2, <2>1, ReceiveEffect
  <2> QED
    BY <1>1, <1>2, <2>2, ReceiveEffect DEF HeldInv
<1>3. CASE AckCurrent(w)
  BY <1>1, <1>3, AckEffect DEF HeldInv
<1>4. CASE ~Receive(w) /\ ~AckCurrent(w)
  <2>1. pc'[w] \in Busy => pc[w] \in Busy /\ Held(w)' = Held(w)
    BY <1>4, GroupUnchanged DEF Held
  <2> QED
    BY <1>1, <1>4, <2>1, GroupUnchanged DEF HeldInv
<1> QED
  BY <1>2, <1>3, <1>4

\* The page of a worker past its claim stays claimed.
LEMMA ClaimStep ==
    ASSUME Typed, ClaimInv, NEW w \in Worker, Step(w) \/ Crash(w) \/ Restart(w)
    PROVE  ClaimInv'
<1> SUFFICES ASSUME NEW v \in Worker, pc'[v] \in Working \cup {"ack"}
             PROVE  PageOf(v)' \in claimed'
  BY DEF ClaimInv
<1>1. batch'[v] = batch[v] /\ pc[v] \in Busy
  BY Frame, StaysAtMessage DEF Busy, Working
<1>2. PageOf(v)' = PageOf(v)
  BY <1>1, PageStable
<1>3. PageOf(v) \in claimed'
  <2>1. CASE v # w \/ pc[v] \in Working
    BY <2>1, Frame DEF ClaimInv
  <2>2. CASE v = w /\ Claim(w)
    BY <2>2 DEF Claim
  <2> QED
    BY <2>1, <2>2, StaysAtMessage
<1> QED
  BY <1>2, <1>3

\* A page is requested by the worker that won its claim, once.
LEMMA FetchStep ==
    ASSUME Typed, ClaimInv, FetchInv,
           NEW w \in Worker, Step(w) \/ Crash(w) \/ Restart(w)
    PROVE  FetchInv'
<1> DEFINE Asking(v) == pc[v] \in {"robots", "fetch"}
<1>1. \A v \in Worker : Asking(v)' =>
          /\ PageOf(v)' = PageOf(v)
          /\ PageOf(v) \in Page
          /\ v # w => Asking(v)
  <2> SUFFICES ASSUME NEW v \in Worker, Asking(v)'
               PROVE  /\ PageOf(v)' = PageOf(v)
                      /\ PageOf(v) \in Page
                      /\ v # w => Asking(v)
    OBVIOUS
  <2>1. batch'[v] = batch[v] /\ pc[v] \in Busy /\ (v # w => Asking(v))
    BY Frame, StaysAtMessage DEF Busy, Working
  <2> QED
    BY <2>1, PageStable, CurrentType
<1>2. \A v \in Worker : Asking(v) => PageOf(v) \in claimed
  BY DEF ClaimInv, Working
<1>3. CASE Claim(w)
  <2>1. fetches' = fetches /\ pc[w] = "job" /\ claimed \subseteq claimed'
    BY <1>3 DEF Claim, history
  <2>2. ASSUME Asking(w)' PROVE PageOf(w) \notin claimed
    BY <1>3, <2>2 DEF Claim, Goto, Typed, TypeOK
  <2>3. ASSUME Asking(w)' PROVE fetches[PageOf(w)] = 0
    BY <1>1, <2>2, <2>3 DEF FetchInv, Typed, TypeOK
  <2>4. ASSUME NEW v \in Worker, v # w, Asking(v)', Asking(w)'
        PROVE  PageOf(v) # PageOf(w)
    BY <1>1, <1>2, <2>2, <2>4
  <2> QED
    BY <1>1, <2>1, <2>3, <2>4 DEF FetchInv, FetchedOnce
<1>4. CASE RobotsAllow(w)
  <2>1. fetches' = fetches /\ claimed' = claimed /\ Asking(w)
    BY <1>4 DEF RobotsAllow, history, shared
  <2> QED
    BY <1>1, <2>1 DEF FetchInv, FetchedOnce
<1>5. CASE FetchFails(w) \/ FetchSucceeds(w)
  <2>1. /\ Asking(w)
        /\ ~Asking(w)'
        /\ claimed' = claimed
        /\ fetches' = [fetches EXCEPT ![PageOf(w)] = @ + 1]
    BY <1>5 DEF FetchFails, FetchSucceeds, Discard, CountFetch, Goto, Typed,
                TypeOK, shared
  <2>2. PageOf(w) \in Page /\ PageOf(w) \in claimed /\ fetches[PageOf(w)] = 0
    BY <1>2, <2>1, CurrentType DEF Busy, FetchInv
  <2>3. \A p \in Page : fetches'[p] = IF p = PageOf(w) THEN 1 ELSE fetches[p]
    BY <2>1, <2>2 DEF Typed, TypeOK
  <2>4. \A v \in Worker : Asking(v)' => v # w /\ PageOf(v) # PageOf(w)
    BY <1>1, <2>1 DEF FetchInv
  <2> QED
    BY <1>1, <2>1, <2>2, <2>3, <2>4 DEF FetchInv, FetchedOnce
<1>6. CASE ~(Claim(w) \/ RobotsAllow(w) \/ FetchFails(w) \/ FetchSucceeds(w))
  <2>1. fetches' = fetches
    BY <1>6
       DEF Step, Start, PublishSeed, PublishOutlink, PublishNext, Receive,
           IdlePoll, StopAtMaxPages, RobotsRefuse, PutPage, Announce,
           AckCurrent, Crash, Restart, history
  <2>2. ~Asking(w)'
    BY <1>6
       DEF Step, Start, PublishSeed, PublishOutlink, PublishNext, Receive,
           IdlePoll, StopAtMaxPages, RobotsRefuse, PutPage, Announce,
           AckCurrent, Crash, Restart, Discard, Goto, Typed, TypeOK
  <2>3. claimed \subseteq claimed'
    BY Frame
  <2> QED
    BY <1>1, <2>1, <2>2, <2>3 DEF FetchInv, FetchedOnce
<1> QED
  BY <1>3, <1>4, <1>5, <1>6

\* Storage, then the message, then the outlinks.
LEMMA WriteStep ==
    ASSUME Typed, WriteInv, NEW w \in Worker, Step(w) \/ Crash(w) \/ Restart(w)
    PROVE  WriteInv'
<1>1. \A v \in Worker : pc'[v] \in {"announce", "links"} =>
          /\ PageOf(v)' = PageOf(v)
          /\ v # w => pc[v] = pc'[v]
  <2> SUFFICES ASSUME NEW v \in Worker, pc'[v] \in {"announce", "links"}
               PROVE  PageOf(v)' = PageOf(v) /\ (v # w => pc[v] = pc'[v])
    OBVIOUS
  <2>1. batch'[v] = batch[v] /\ pc[v] \in Busy /\ (v # w => pc[v] = pc'[v])
    BY Frame, StaysAtMessage DEF Busy, Working
  <2> QED
    BY <2>1, PageStable
<1>2. stored \subseteq stored' /\ Announced \subseteq Announced'
  BY Frame
<1>3. CASE PutPage(w)
  <2>1. extract' = extract /\ pc'[w] # "links"
    BY <1>3 DEF PutPage, Goto, Typed, TypeOK
  <2>2. Announced' = Announced
    BY <2>1 DEF Announced
  <2>3. \E s \in stored' : s.page = PageOf(w)
    <3> DEFINE urls == [i \in DOMAIN outbox[w] |-> outbox[w][i].url]
               object == [page |-> PageOf(w), depth |-> JobOf(w).depth,
                          links |-> urls]
    <3>1. object \in stored'
      BY <1>3, Zenon DEF PutPage
    <3>2. object.page = PageOf(w)
      OBVIOUS
    <3> HIDE DEF object
    <3> QED
      BY <3>1, <3>2
  <2> QED
    BY <1>1, <1>2, <2>1, <2>2, <2>3 DEF WriteInv, AnnouncedIsStored
<1>4. CASE Announce(w)
  <2>1. /\ pc[w] = "announce"
        /\ pc'[w] # "announce"
        /\ stored' = stored
        /\ extract' = Append(extract, PageOf(w))
    BY <1>4 DEF Announce, Goto, Typed, TypeOK
  <2>2. Announced' = Announced \cup {PageOf(w)}
    <3>1. PageOf(w) \in Page /\ extract \in Seq(Page)
      BY <2>1, CurrentType DEF Busy, Typed, TypeOK
    <3>2. /\ Len(extract) \in Nat
          /\ DOMAIN extract = 1 .. Len(extract)
          /\ DOMAIN extract' = 1 .. (Len(extract) + 1)
          /\ \A i \in 1 .. Len(extract) : extract'[i] = extract[i]
          /\ extract'[Len(extract) + 1] = PageOf(w)
      BY <2>1, <3>1, AppendProperties
    <3> QED
      BY <3>2 DEF Announced
  <2> QED
    BY <1>1, <2>1, <2>2 DEF WriteInv, AnnouncedIsStored
<1>5. CASE ~PutPage(w) /\ ~Announce(w)
  <2>1. extract' = extract
    BY <1>5
       DEF Step, Start, PublishSeed, PublishOutlink, PublishNext, Receive,
           IdlePoll, StopAtMaxPages, Claim, RobotsAllow, RobotsRefuse,
           FetchFails, FetchSucceeds, AckCurrent, Crash, Restart, Discard,
           shared
  <2>2. /\ pc'[w] # "announce"
        /\ pc'[w] = "links" => pc[w] = "links"
    BY <1>5
       DEF Step, Start, PublishSeed, PublishOutlink, PublishNext, Receive,
           IdlePoll, StopAtMaxPages, Claim, RobotsAllow, RobotsRefuse,
           FetchFails, FetchSucceeds, AckCurrent, Crash, Restart, Discard,
           Goto, Typed, TypeOK
  <2>3. Announced' = Announced
    BY <2>1 DEF Announced
  <2> QED
    BY <1>1, <1>2, <2>2, <2>3 DEF WriteInv, AnnouncedIsStored
<1> QED
  BY <1>3, <1>4, <1>5

\* A confirmed message is one whose page was claimed.
LEMMA AckedStep ==
    ASSUME Typed, ClaimInv, AckedIsClaimed,
           NEW w \in Worker, Step(w) \/ Crash(w) \/ Restart(w)
    PROVE  AckedIsClaimed'
<1>1. /\ frontier.cursor \in Nat
      /\ Len(frontier.entries) \in Nat
      /\ frontier.cursor <= Len(frontier.entries)
      /\ frontier.pending \subseteq 1 .. frontier.cursor
  BY DEF Typed, StreamInv, TypeOK, StreamOf
<1>2. \A i \in 1 .. frontier.cursor :
          frontier'.entries[i] = frontier.entries[i]
  BY <1>1, Frame
<1>3. claimed \subseteq claimed'
  BY Frame
<1>4. CASE Receive(w)
  <2>1. Acked(frontier)' = Acked(frontier)
    BY <1>1, <1>4, ReceiveEffect DEF Acked
  <2> QED
    BY <1>1, <1>2, <1>3, <2>1 DEF AckedIsClaimed, Acked
<1>5. CASE AckCurrent(w)
  <2>1. Acked(frontier)' \subseteq Acked(frontier) \cup {Current(w)}
    BY <1>5, AckEffect DEF Acked
  <2>2. Canon[frontier.entries[Current(w)].url] \in claimed
    BY <1>5, AckEffect DEF ClaimInv, PageOf, JobOf
  <2>3. Acked(frontier)' \subseteq 1 .. frontier.cursor
    BY <1>5, AckEffect DEF Acked
  <2> QED
    BY <1>2, <1>3, <2>1, <2>2, <2>3 DEF AckedIsClaimed
<1>6. CASE ~Receive(w) /\ ~AckCurrent(w)
  <2>1. Acked(frontier)' = Acked(frontier)
    BY <1>6, GroupUnchanged DEF Acked
  <2> QED
    BY <1>1, <1>2, <1>3, <2>1 DEF AckedIsClaimed, Acked
<1> QED
  BY <1>4, <1>5, <1>6

\* A page that was claimed and has not ended keeps a pending message that no
\* worker is about to confirm.
LEMMA OwnerStep ==
    ASSUME Typed, HeldInv, WriteInv, OwnerInv,
           NEW w \in Worker, Step(w) \/ Crash(w) \/ Restart(w)
    PROVE  OwnerInv'
<1>1. /\ frontier.cursor \in Nat
      /\ Len(frontier.entries) \in Nat
      /\ frontier.cursor <= Len(frontier.entries)
      /\ frontier.pending \subseteq 1 .. frontier.cursor
  BY DEF Typed, StreamInv, TypeOK, StreamOf
<1>2. \A i \in frontier.pending : frontier'.entries[i] = frontier.entries[i]
  BY <1>1, Frame
<1>3. \A v \in Worker \ {w} :
          pc'[v] = pc[v] /\ Held(v)' = Held(v) /\ Current(v)' = Current(v)
  BY Frame DEF Held, Current
<1>4. Announced \cup discarded \subseteq Announced' \cup discarded'
  BY Frame
<1> SUFFICES ASSUME NEW p \in claimed', p \notin Announced' \cup discarded'
             PROVE  \E i \in frontier'.pending : Keeps(i, p)'
  BY DEF OwnerInv
<1>5. CASE p \notin claimed
  <2>1. Claim(w) /\ p = PageOf(w)
    BY <1>5 DEF Step, Start, PublishSeed, PublishOutlink, PublishNext,
         Receive, IdlePoll, StopAtMaxPages, Claim, RobotsAllow, RobotsRefuse,
         FetchFails, FetchSucceeds, PutPage, Announce, AckCurrent, Crash,
         Restart, Discard, shared
  <2>2. /\ pc[w] \in Busy
        /\ pc'[w] = "robots"
        /\ batch' = batch
        /\ frontier' = frontier
    BY <1>5, <2>1 DEF Claim, Goto, Busy, Typed, TypeOK, local
  <2>3. Current(w) \in Held(w) /\ Current(w)' = Current(w)
    <3>1. /\ batch[w].next \in Nat /\ batch[w].last \in Nat
          /\ batch[w].next <= batch[w].last
      BY <2>2 DEF Typed, TypeOK, BatchInv
    <3> QED
      BY <2>2, <3>1 DEF Current, Held
  <2>4. Current(w) \in frontier'.pending
    BY <2>2, <2>3 DEF HeldInv
  <2>5. ASSUME NEW v \in Worker, pc'[v] \in Busy, Current(w) \in Held(v)'
        PROVE  v = w
    BY <1>3, <2>2, <2>3, <2>5 DEF HeldInv
  <2> DEFINE m == Current(w)
  <2>6. Canon[frontier'.entries[m].url] = p
    BY <2>1, <2>2 DEF PageOf, JobOf
  <2>7. \A v \in Worker : pc'[v] \in Busy /\ m \in Held(v)' =>
            m = Current(v)' /\ pc'[v] \in Working
    BY <2>2, <2>3, <2>5 DEF Working
  <2>8. \E i \in frontier'.pending : Keeps(i, p)'
    <3> HIDE DEF m
    <3> QED
      BY <2>4, <2>6, <2>7 DEF Keeps, m
  <2> QED
    BY <2>8
<1>6. CASE p \in claimed
  <2>1. PICK i \in frontier.pending : Keeps(i, p)
    BY <1>4, <1>6 DEF OwnerInv
  <2>2. Canon[frontier'.entries[i].url] = p
    BY <1>2, <2>1 DEF Keeps
  <2>3. i \in Held(w) /\ pc[w] \in Busy =>
            i = Current(w) /\ pc[w] \in Working /\ PageOf(w) = p
    BY <2>1 DEF Keeps, PageOf, JobOf
  <2>4. /\ i \in frontier'.pending
        /\ pc'[w] \in Busy /\ i \in Held(w)' =>
               i = Current(w)' /\ pc'[w] \in Working
    <3>1. CASE Receive(w)
      BY <1>1, <3>1, ReceiveEffect
    <3>2. CASE AckCurrent(w)
      BY <2>3, <3>2, AckEffect DEF Working
    <3>3. CASE ~Receive(w) /\ ~AckCurrent(w)
      <4>1. i \in frontier'.pending
        BY <3>3, GroupUnchanged
      <4>2. ASSUME pc'[w] \in Busy, i \in Held(w)'
            PROVE  i = Current(w)' /\ pc'[w] \in Working
        <5>1. /\ pc[w] \in Busy
              /\ batch'[w] = batch[w]
              /\ Held(w)' = Held(w)
              /\ Current(w)' = Current(w)
          BY <3>3, <4>2, GroupUnchanged DEF Held, Current
        <5>2. i = Current(w)' /\ pc[w] \in Working /\ PageOf(w) = p
          BY <2>3, <4>2, <5>1
        <5>3. PageOf(w) \notin Announced' \cup discarded'
          BY <5>2
        <5>4. pc'[w] \in Working
          <6>1. CASE RobotsRefuse(w) \/ FetchFails(w)
            BY <5>3, <6>1 DEF RobotsRefuse, FetchFails, Discard
          <6>2. CASE Announce(w)
            <7>1. PageOf(w) \in Announced'
              <8>1. PageOf(w) \in Page /\ extract \in Seq(Page)
                BY <6>2, CurrentType DEF Announce, Busy, Typed, TypeOK
              <8>2. extract' = Append(extract, PageOf(w))
                BY <6>2 DEF Announce
              <8>3. /\ Len(extract) + 1 \in DOMAIN extract'
                    /\ extract'[Len(extract) + 1] = PageOf(w)
                BY <8>1, <8>2, AppendProperties
              <8> QED
                BY <8>3 DEF Announced
            <7> QED
              BY <5>3, <7>1
          <6>3. CASE PublishOutlink(w)
            <7>1. PageOf(w) \in Announced
              BY <6>3 DEF WriteInv, PublishOutlink, PublishNext
            <7> QED
              BY <1>4, <5>3, <7>1
          <6>4. CASE ~(RobotsRefuse(w) \/ FetchFails(w) \/ Announce(w)
                       \/ PublishOutlink(w))
            BY <3>3, <4>2, <5>2, <6>4
               DEF Step, Start, PublishSeed, PublishNext, IdlePoll,
                   StopAtMaxPages, Claim, RobotsAllow, FetchSucceeds, PutPage,
                   Crash, Restart, Goto, Working, Busy, Typed, TypeOK
          <6> QED
            BY <6>1, <6>2, <6>3, <6>4
        <5> QED
          BY <5>2, <5>4
      <4> QED
        BY <4>1, <4>2
    <3> QED
      BY <3>1, <3>2, <3>3
  <2>5. Keeps(i, p)'
    BY <1>3, <2>1, <2>2, <2>4 DEF Keeps
  <2> QED
    BY <2>4, <2>5
<1> QED
  BY <1>5, <1>6

-----------------------------------------------------------------------------
\* The inductive invariant holds of every behaviour.
LEMMA CrawlInvariant == Spec => []CrawlInv
<1>1. Init => CrawlInv
  <2> SUFFICES ASSUME Init PROVE CrawlInv
    OBVIOUS
  <2>1. Typed
    BY TypedInit
  <2>2. HeldInv /\ ClaimInv /\ OwnerInv
    BY DEF Init, HeldInv, ClaimInv, OwnerInv, Busy, Working
  <2>3. FetchInv
    BY DEF Init, FetchInv, FetchedOnce
  <2>4. WriteInv
    BY DEF Init, WriteInv, AnnouncedIsStored, Announced
  <2>5. AckedIsClaimed
    BY DEF Init, AckedIsClaimed, Acked, EmptyStream
  <2> QED
    BY <2>1, <2>2, <2>3, <2>4, <2>5 DEF CrawlInv
<1>2. CrawlInv /\ [Next]_vars => CrawlInv'
  <2> SUFFICES ASSUME CrawlInv, [Next]_vars PROVE CrawlInv'
    OBVIOUS
  <2>1. CASE Next
    <3>1. PICK w \in Worker : Step(w) \/ Crash(w) \/ Restart(w)
      BY <2>1 DEF Next
    <3> QED
      BY <3>1, TypedStep, HeldStep, ClaimStep, FetchStep, WriteStep,
         OwnerStep, AckedStep
         DEF CrawlInv
  <2>2. CASE UNCHANGED vars
    <3>1. Typed'
      BY <2>2 DEF CrawlInv, Typed, TypeOK, StreamInv, BatchInv, vars, shared,
                  local, history
    <3>2. HeldInv' /\ ClaimInv' /\ FetchInv'
      BY <2>2 DEF CrawlInv, HeldInv, ClaimInv, FetchInv, FetchedOnce, Held,
                  PageOf, JobOf, Current, vars, shared, local, history
    <3>3. WriteInv' /\ AckedIsClaimed'
      BY <2>2 DEF CrawlInv, WriteInv, AnnouncedIsStored, Announced,
                  AckedIsClaimed, Acked, PageOf, JobOf, Current, vars, shared,
                  local
    <3>4. OwnerInv'
      BY <2>2 DEF CrawlInv, OwnerInv, Keeps, Held, Announced, Current, vars,
                  shared, local, history
    <3> QED
      BY <3>1, <3>2, <3>3, <3>4 DEF CrawlInv
  <2> QED
    BY <2>1, <2>2
<1> QED
  BY <1>1, <1>2, PTL DEF Spec

\* A site never gets the same page requested twice, whatever the number of
\* workers, the spellings of its URL and the crashes.
THEOREM CrawlFetchesOnce == Spec => []FetchedOnce
<1>1. CrawlInv => FetchedOnce
  BY DEF CrawlInv, FetchInv
<1> QED
  BY CrawlInvariant, <1>1, PTL

\* The extraction is never told about a page that is not in storage.
THEOREM CrawlStoresFirst == Spec => []AnnouncedIsStored
<1>1. CrawlInv => AnnouncedIsStored
  BY DEF CrawlInv, WriteInv
<1> QED
  BY CrawlInvariant, <1>1, PTL

\* A job is confirmed only once its page is claimed.
THEOREM CrawlConfirmsClaimed == Spec => []AckedIsClaimed
<1>1. CrawlInv => AckedIsClaimed
  BY DEF CrawlInv
<1> QED
  BY CrawlInvariant, <1>1, PTL

\* Unfinished work is never lost from the pending list, crash or no crash.
THEOREM CrawlLosesNothing == Spec => []UnfinishedIsPending
<1>1. CrawlInv => UnfinishedIsPending
  BY DEF CrawlInv, OwnerInv, Keeps, UnfinishedIsPending, HasPending
<1> QED
  BY CrawlInvariant, <1>1, PTL

-----------------------------------------------------------------------------
(***************************************************************************)
(* The frontier is closed under links.  A stored page whose links are not  *)
(* all in the frontier needs a pending message that TENDS it: one that no  *)
(* live worker holds, or the message of the worker that is announcing the  *)
(* page or publishing its links, and then what is still to publish is in   *)
(* that worker's outbox.  A message of the same page that a worker skips   *)
(* as a duplicate tends nothing, since its worker is about to confirm it.  *)
(***************************************************************************)
Outgoing(w) == {outbox[w][k] : k \in DOMAIN outbox[w]}

\* The jobs of all the links of a stored page are among these.
Linked(s, jobs) ==
    \A k \in DOMAIN s.links :
        [url |-> s.links[k], depth |-> s.depth + 1] \in jobs

\* What a worker is to publish for a page is one level below it.
OutboxInv ==
    \A w \in Worker : pc[w] \in {"put", "announce", "links"} =>
        \A job \in Outgoing(w) : job.depth = JobOf(w).depth + 1

Tends(i, s) ==
    /\ i \in frontier.pending
    /\ Canon[frontier.entries[i].url] = s.page
    /\ \A w \in Worker : pc[w] \in Busy /\ i \in Held(w) =>
          /\ i = Current(w)
          /\ pc[w] \in {"announce", "links"}
          /\ JobOf(w).depth = s.depth
          /\ Linked(s, Entries \cup Outgoing(w))

LinkInv ==
    \A s \in stored : s.depth < MaxDepth =>
        Linked(s, Entries) \/ \E i \in frontier.pending : Tends(i, s)

\* The links of a page stay among a growing set of jobs.
LEMMA LinkedMonotone ==
    ASSUME NEW s, NEW A, NEW B, A \subseteq B, Linked(s, A)
    PROVE  Linked(s, B)
BY DEF Linked

\* The job of a worker that stays at its message stays the same.
LEMMA JobStable ==
    ASSUME Typed, NEW w \in Worker, Step(w) \/ Crash(w) \/ Restart(w),
           NEW v \in Worker, pc[v] \in Busy, batch'[v] = batch[v]
    PROVE  /\ Current(v)' = Current(v)
           /\ JobOf(v)' = JobOf(v)
<1>1. Current(v) \in 1 .. Len(frontier.entries)
  BY CurrentType
<1>2. frontier'.entries[Current(v)] = frontier.entries[Current(v)]
  BY <1>1, Frame
<1>3. Current(v)' = Current(v)
  BY DEF Current
<1> QED
  BY <1>2, <1>3 DEF JobOf

\* What is in a list is its head or in its tail.
LEMMA HeadAndTail ==
    ASSUME NEW S, NEW q \in Seq(S), q # <<>>
    PROVE  {q[k] : k \in DOMAIN q}
              = {Head(q)} \cup {Tail(q)[k] : k \in DOMAIN Tail(q)}
<1>1. /\ Len(q) \in Nat /\ Len(q) >= 1
      /\ DOMAIN q = 1 .. Len(q)
      /\ Head(q) = q[1]
      /\ Tail(q) \in Seq(S)
      /\ Len(Tail(q)) = Len(q) - 1
      /\ DOMAIN Tail(q) = 1 .. (Len(q) - 1)
      /\ \A k \in 1 .. (Len(q) - 1) : Tail(q)[k] = q[k + 1]
  BY HeadTailProperties, EmptySeq
<1>2. \A k \in 1 .. Len(q) :
          k = 1 \/ (k - 1 \in 1 .. (Len(q) - 1) /\ q[k] = Tail(q)[k - 1])
  BY <1>1
<1>3. \A k \in 1 .. (Len(q) - 1) : k + 1 \in 1 .. Len(q)
  BY <1>1
<1>4. 1 \in 1 .. Len(q)
  BY <1>1
<1>5. ASSUME NEW k \in DOMAIN q
      PROVE  q[k] \in {Head(q)} \cup {Tail(q)[j] : j \in DOMAIN Tail(q)}
  BY <1>1, <1>2
<1>6. ASSUME NEW k \in DOMAIN Tail(q)
      PROVE  Tail(q)[k] \in {q[j] : j \in DOMAIN q}
  BY <1>1, <1>3
<1> QED
  BY <1>1, <1>4, <1>5, <1>6

\* What publishing does to the frontier and to the outbox of the publisher.
LEMMA PublishEffect ==
    ASSUME Typed, NEW w \in Worker, NEW from, NEW to, PublishNext(w, from, to)
    PROVE  /\ Entries' = Entries \cup {Head(outbox[w])}
           /\ Outgoing(w) = {Head(outbox[w])} \cup Outgoing(w)'
           /\ Tail(outbox[w]) = <<>> => Outgoing(w)' = {}
<1>1. /\ outbox[w] \in Seq(Job) /\ outbox[w] # <<>>
      /\ frontier.entries \in Seq(Job)
      /\ outbox'[w] = Tail(outbox[w])
  BY DEF PublishNext, Typed, TypeOK, StreamOf
<1>2. Head(outbox[w]) \in Job
  BY <1>1, HeadTailProperties
<1>3. frontier'.entries = Append(frontier.entries, Head(outbox[w]))
  BY DEF PublishNext, Publish, Typed, TypeOK, StreamOf
<1>4. /\ Len(frontier.entries) \in Nat
      /\ DOMAIN frontier.entries = 1 .. Len(frontier.entries)
      /\ DOMAIN frontier'.entries = 1 .. (Len(frontier.entries) + 1)
      /\ \A i \in 1 .. Len(frontier.entries) :
             frontier'.entries[i] = frontier.entries[i]
      /\ frontier'.entries[Len(frontier.entries) + 1] = Head(outbox[w])
  BY <1>1, <1>2, <1>3, AppendProperties
<1>5. Entries' = Entries \cup {Head(outbox[w])}
  BY <1>4 DEF Entries
<1>6. Outgoing(w) = {Head(outbox[w])} \cup Outgoing(w)'
  <2>1. {outbox[w][k] : k \in DOMAIN outbox[w]}
           = {Head(outbox[w])}
                \cup {Tail(outbox[w])[k] : k \in DOMAIN Tail(outbox[w])}
    BY <1>1, HeadAndTail, Zenon
  <2> QED
    BY <1>1, <2>1 DEF Outgoing
<1>7. Tail(outbox[w]) = <<>> => Outgoing(w)' = {}
  BY <1>1 DEF Outgoing
<1> QED
  BY <1>5, <1>6, <1>7

\* Jobs never leave the frontier, and a worker publishes only its own.
LEMMA FrameJobs ==
    ASSUME Typed, NEW w \in Worker, Step(w) \/ Crash(w) \/ Restart(w)
    PROVE  /\ Entries \subseteq Entries'
           /\ \A v \in Worker \ {w} : Outgoing(v)' = Outgoing(v)
<1>1. Entries \subseteq Entries'
  <2>1. ASSUME frontier'.entries = frontier.entries
        PROVE  Entries \subseteq Entries'
    BY <2>1 DEF Entries
  <2>2. ASSUME Receive(w) PROVE frontier'.entries = frontier.entries
    BY <2>2 DEF Receive, Consume, Typed, TypeOK, StreamOf
  <2>3. ASSUME AckCurrent(w) PROVE frontier'.entries = frontier.entries
    BY <2>3 DEF AckCurrent, Ack, Typed, TypeOK, StreamOf
  <2>4. ASSUME PublishSeed(w) \/ PublishOutlink(w)
        PROVE  Entries \subseteq Entries'
    BY <2>4, PublishEffect DEF PublishSeed, PublishOutlink
  <2> QED
    BY <2>1, <2>2, <2>3, <2>4
       DEF Step, Start, IdlePoll, StopAtMaxPages, Claim, RobotsAllow,
           RobotsRefuse, FetchFails, FetchSucceeds, PutPage, Announce, Crash,
           Restart, Discard, shared
<1>2. \A v \in Worker \ {w} : outbox'[v] = outbox[v]
  BY DEF Typed, TypeOK, Step, Start, PublishSeed, PublishOutlink, PublishNext,
         Receive, IdlePoll, StopAtMaxPages, Claim, RobotsAllow, RobotsRefuse,
         FetchFails, FetchSucceeds, PutPage, Announce, AckCurrent, Crash,
         Restart, Discard, local
<1> QED
  BY <1>1, <1>2 DEF Outgoing

\* The jobs made of a page's links are one level below the page's job.
LEMMA OutboxStep ==
    ASSUME Typed, OutboxInv, NEW w \in Worker,
           Step(w) \/ Crash(w) \/ Restart(w)
    PROVE  OutboxInv'
<1> DEFINE Writing == {"put", "announce", "links"}
<1> SUFFICES ASSUME NEW v \in Worker, pc'[v] \in Writing,
                    NEW job \in Outgoing(v)'
             PROVE  job.depth = JobOf(v)'.depth + 1
  BY DEF OutboxInv
<1>1. batch'[v] = batch[v] /\ pc[v] \in Busy
  BY Frame, StaysAtMessage DEF Busy, Working
<1>2. JobOf(v)' = JobOf(v)
  BY <1>1, JobStable
<1>3. CASE v # w
  BY <1>2, <1>3, Frame, FrameJobs DEF OutboxInv
<1>4. CASE v = w /\ FetchSucceeds(w)
  <2>1. PICK links \in {Links[JobOf(w).url], <<>>} :
            outbox' = [outbox EXCEPT ![w] =
                          JobsAt(links, JobOf(w).depth + 1)]
    BY <1>4 DEF FetchSucceeds
  <2>2. outbox'[w] = JobsAt(links, JobOf(w).depth + 1)
    BY <2>1 DEF Typed, TypeOK
  <2> QED
    BY <1>2, <1>4, <2>2 DEF Outgoing, JobsAt
<1>5. CASE v = w /\ ~FetchSucceeds(w)
  <2>1. pc[w] \in Writing /\ Outgoing(w)' \subseteq Outgoing(w)
    <3>1. CASE PublishOutlink(w)
      <4>1. Outgoing(w)' \subseteq Outgoing(w)
        BY <3>1, PublishEffect DEF PublishOutlink
      <4> QED
        BY <3>1, <4>1 DEF PublishOutlink, PublishNext
    <3>2. CASE PutPage(w) \/ Announce(w)
      <4>1. outbox'[w] = outbox[w]
        BY <1>5, <3>2 DEF PutPage, Announce, Goto, Typed, TypeOK, local
      <4> QED
        BY <3>2, <4>1 DEF PutPage, Announce, Outgoing
    <3>3. CASE ~(PublishOutlink(w) \/ PutPage(w) \/ Announce(w))
      BY <1>5, <3>3
         DEF Step, Start, PublishSeed, PublishNext, Receive, IdlePoll,
             StopAtMaxPages, Claim, RobotsAllow, RobotsRefuse, FetchFails,
             AckCurrent, Crash, Restart, Discard, Goto, Typed, TypeOK
    <3> QED
      BY <3>1, <3>2, <3>3
  <2> QED
    BY <1>2, <1>5, <2>1 DEF OutboxInv
<1> QED
  BY <1>3, <1>4, <1>5

\* A stored page keeps its links in the frontier, or a message that tends it.
LEMMA LinkStep ==
    ASSUME Typed, HeldInv, OutboxInv, LinkInv,
           NEW w \in Worker, Step(w) \/ Crash(w) \/ Restart(w)
    PROVE  LinkInv'
<1>1. /\ frontier.cursor \in Nat
      /\ Len(frontier.entries) \in Nat
      /\ frontier.cursor <= Len(frontier.entries)
      /\ frontier.pending \subseteq 1 .. frontier.cursor
  BY DEF Typed, StreamInv, TypeOK, StreamOf
<1>2. \A i \in frontier.pending : frontier'.entries[i] = frontier.entries[i]
  BY <1>1, Frame
<1>3. \A v \in Worker \ {w} :
          /\ pc'[v] = pc[v]
          /\ batch'[v] = batch[v]
          /\ Held(v)' = Held(v)
          /\ Current(v)' = Current(v)
          /\ Outgoing(v)' = Outgoing(v)
  BY Frame, FrameJobs DEF Held, Current
<1>4. Entries \subseteq Entries'
  BY FrameJobs
<1> SUFFICES ASSUME NEW s \in stored', s.depth < MaxDepth
             PROVE  \/ Linked(s, Entries')
                    \/ \E i \in frontier'.pending : Tends(i, s)'
  BY DEF LinkInv, Linked
<1>5. CASE s \notin stored
  <2>1. PutPage(w)
    BY <1>5 DEF Step, Start, PublishSeed, PublishOutlink, PublishNext,
         Receive, IdlePoll, StopAtMaxPages, Claim, RobotsAllow, RobotsRefuse,
         FetchFails, FetchSucceeds, PutPage, Announce, AckCurrent, Crash,
         Restart, Discard, shared
  <2>2. /\ pc[w] = "put" /\ pc[w] \in Busy
        /\ pc'[w] = "announce"
        /\ batch' = batch
        /\ outbox' = outbox
        /\ frontier' = frontier
    BY <2>1 DEF PutPage, Goto, Busy, Typed, TypeOK, local
  <2> DEFINE urls == [k \in DOMAIN outbox[w] |-> outbox[w][k].url]
             object == [page |-> PageOf(w), depth |-> JobOf(w).depth,
                        links |-> urls]
  <2>3. s = object
    <3>1. stored' = stored \cup {object}
      BY <2>1, Zenon DEF PutPage
    <3> HIDE DEF object
    <3> QED
      BY <1>5, <3>1
  <2>4. /\ s.page = PageOf(w)
        /\ s.depth = JobOf(w).depth
        /\ s.links = urls
    BY <2>3
  <2>5. Current(w) \in Held(w) /\ Current(w)' = Current(w)
    <3>1. /\ batch[w].next \in Nat /\ batch[w].last \in Nat
          /\ batch[w].next <= batch[w].last
      BY <2>2 DEF Typed, TypeOK, BatchInv
    <3> QED
      BY <2>2, <3>1 DEF Current, Held
  <2>6. Current(w) \in frontier'.pending
    BY <2>2, <2>5 DEF HeldInv
  <2>7. ASSUME NEW v \in Worker, pc'[v] \in Busy, Current(w) \in Held(v)'
        PROVE  v = w
    BY <1>3, <2>2, <2>5, <2>7 DEF HeldInv
  <2>8. JobOf(w)' = JobOf(w) /\ Outgoing(w)' = Outgoing(w)
    BY <2>2, JobStable DEF Outgoing
  <2>9. Linked(s, Outgoing(w))
    <3> SUFFICES ASSUME NEW k \in DOMAIN outbox[w]
                 PROVE  [url |-> outbox[w][k].url, depth |-> s.depth + 1]
                           \in Outgoing(w)
      BY <2>4 DEF Linked
    <3>1. outbox[w] \in Seq(Job)
      BY DEF Typed, TypeOK
    <3>2. outbox[w][k] \in Job
      BY <3>1, ElementOfSeq
    <3>3. outbox[w][k].depth = s.depth + 1
      BY <2>2, <2>4 DEF OutboxInv, Outgoing
    <3>4. outbox[w][k] = [url |-> outbox[w][k].url, depth |-> s.depth + 1]
      BY <3>2, <3>3 DEF Job
    <3> QED
      BY <3>4 DEF Outgoing
  <2>10. Linked(s, Entries' \cup Outgoing(w)')
    BY <2>8, <2>9, LinkedMonotone
  <2> DEFINE m == Current(w)
  <2>11. Canon[frontier'.entries[m].url] = s.page
    BY <2>2, <2>4 DEF PageOf, JobOf
  <2>12. \A v \in Worker : pc'[v] \in Busy /\ m \in Held(v)' =>
            /\ m = Current(v)'
            /\ pc'[v] \in {"announce", "links"}
            /\ JobOf(v)'.depth = s.depth
            /\ Linked(s, Entries' \cup Outgoing(v)')
    BY <2>2, <2>4, <2>5, <2>7, <2>8, <2>10
  <2>13. \E i \in frontier'.pending : Tends(i, s)'
    <3>1. m \in frontier'.pending
      BY <2>6
    <3> HIDE DEF m
    <3> QED
      BY <2>11, <2>12, <3>1 DEF Tends, Linked
  <2> QED
    BY <2>13
<1>6. CASE s \in stored /\ Linked(s, Entries)
  BY <1>4, <1>6, LinkedMonotone
<1>7. CASE s \in stored /\ ~Linked(s, Entries)
  <2>1. PICK i \in frontier.pending : Tends(i, s)
    BY <1>7 DEF LinkInv
  <2> SUFFICES ASSUME ~Linked(s, Entries') PROVE Tends(i, s)'
    BY DEF Tends
  <2>2. Canon[frontier'.entries[i].url] = s.page
    BY <1>2, <2>1 DEF Tends
  <2>3. \A v \in Worker : pc[v] \in Busy /\ i \in Held(v) =>
            /\ i = Current(v)
            /\ pc[v] \in {"announce", "links"}
            /\ JobOf(v).depth = s.depth
            /\ Linked(s, Entries \cup Outgoing(v))
    BY <2>1 DEF Tends
  <2>4. \A v \in Worker \ {w} : pc'[v] \in Busy /\ i \in Held(v)' =>
            /\ i = Current(v)'
            /\ pc'[v] \in {"announce", "links"}
            /\ JobOf(v)'.depth = s.depth
            /\ Linked(s, Entries' \cup Outgoing(v)')
    <3> SUFFICES ASSUME NEW v \in Worker \ {w}, pc'[v] \in Busy, i \in Held(v)'
                 PROVE  /\ i = Current(v)'
                        /\ pc'[v] \in {"announce", "links"}
                        /\ JobOf(v)'.depth = s.depth
                        /\ Linked(s, Entries' \cup Outgoing(v)')
      OBVIOUS
    <3>1. pc[v] \in Busy /\ i \in Held(v) /\ batch'[v] = batch[v]
      BY <1>3
    <3>2. JobOf(v)' = JobOf(v)
      BY <3>1, JobStable
    <3>3. Linked(s, Entries \cup Outgoing(v))
      BY <2>3, <3>1
    <3>4. Linked(s, Entries' \cup Outgoing(v)')
      BY <1>3, <1>4, <3>3, LinkedMonotone
    <3> QED
      BY <1>3, <2>3, <3>1, <3>2, <3>4
  <2>5. /\ i \in frontier'.pending
        /\ pc'[w] \in Busy /\ i \in Held(w)' =>
            /\ i = Current(w)'
            /\ pc'[w] \in {"announce", "links"}
            /\ JobOf(w)'.depth = s.depth
            /\ Linked(s, Entries' \cup Outgoing(w)')
    <3>1. CASE Receive(w)
      BY <1>1, <3>1, ReceiveEffect
    <3>2. CASE AckCurrent(w)
      BY <2>3, <3>2, AckEffect
    <3>3. CASE ~Receive(w) /\ ~AckCurrent(w)
      <4>1. i \in frontier'.pending
        BY <3>3, GroupUnchanged
      <4> SUFFICES ASSUME pc'[w] \in Busy, i \in Held(w)'
                   PROVE  /\ i = Current(w)'
                          /\ pc'[w] \in {"announce", "links"}
                          /\ JobOf(w)'.depth = s.depth
                          /\ Linked(s, Entries' \cup Outgoing(w)')
        BY <4>1
      <4>2. pc[w] \in Busy /\ batch'[w] = batch[w] /\ i \in Held(w)
        BY <3>3, GroupUnchanged DEF Held
      <4>3. Current(w)' = Current(w) /\ JobOf(w)' = JobOf(w)
        BY <4>2, JobStable
      <4>4. /\ i = Current(w)
            /\ pc[w] \in {"announce", "links"}
            /\ JobOf(w).depth = s.depth
            /\ Linked(s, Entries \cup Outgoing(w))
        BY <2>3, <4>2
      <4>5. pc'[w] \in {"announce", "links"}
            /\ Entries \cup Outgoing(w) \subseteq Entries' \cup Outgoing(w)'
        <5>1. CASE Announce(w)
          <6>1. CASE JobOf(w).depth < MaxDepth /\ outbox[w] # <<>>
            <7>1. pc'[w] = "links" /\ outbox' = outbox
              BY <5>1, <6>1 DEF Announce, Goto, Typed, TypeOK
            <7> QED
              BY <1>4, <7>1 DEF Outgoing
          <6>2. CASE ~(JobOf(w).depth < MaxDepth /\ outbox[w] # <<>>)
            <7>1. outbox[w] = <<>>
              BY <4>4, <6>2
            <7>2. Outgoing(w) = {}
              BY <7>1 DEF Outgoing
            <7>3. Linked(s, Entries)
              BY <4>4, <7>2, LinkedMonotone
            <7> QED
              BY <1>7, <7>3
          <6> QED
            BY <6>1, <6>2
        <5>2. CASE PublishOutlink(w)
          <6>1. Entries \cup Outgoing(w) \subseteq Entries' \cup Outgoing(w)'
            BY <5>2, PublishEffect DEF PublishOutlink
          <6>2. Tail(outbox[w]) # <<>>
            <7> SUFFICES ASSUME Tail(outbox[w]) = <<>> PROVE FALSE
              OBVIOUS
            <7>1. Entries \cup Outgoing(w) \subseteq Entries'
              BY <5>2, PublishEffect DEF PublishOutlink
            <7> QED
              BY <4>4, <7>1, LinkedMonotone
          <6>3. pc'[w] = "links"
            BY <5>2, <6>2 DEF PublishOutlink, PublishNext, Goto, Typed, TypeOK
          <6> QED
            BY <6>1, <6>3
        <5>3. CASE ~Announce(w) /\ ~PublishOutlink(w)
          BY <3>3, <4>2, <4>4, <5>3
             DEF Step, Start, PublishSeed, PublishNext, IdlePoll,
                 StopAtMaxPages, Claim, RobotsAllow, RobotsRefuse, FetchFails,
                 FetchSucceeds, PutPage, Crash, Restart, Goto, Busy, Typed,
                 TypeOK
        <5> QED
          BY <5>1, <5>2, <5>3
      <4>6. Linked(s, Entries' \cup Outgoing(w)')
        BY <4>4, <4>5, LinkedMonotone
      <4> QED
        BY <4>3, <4>4, <4>5, <4>6
    <3> QED
      BY <3>1, <3>2, <3>3
  <2> QED
    BY <2>2, <2>4, <2>5 DEF Tends, Linked
<1> QED
  BY <1>5, <1>6, <1>7

\* What the frontier's closure needs holds of every behaviour.
LEMMA LinkInvariant == Spec => [](OutboxInv /\ LinkInv)
<1>1. Init => OutboxInv /\ LinkInv
  BY DEF Init, OutboxInv, LinkInv
<1>2. /\ CrawlInv /\ OutboxInv /\ LinkInv /\ [Next]_vars
      => (OutboxInv /\ LinkInv)'
  <2> SUFFICES ASSUME CrawlInv, OutboxInv, LinkInv, [Next]_vars
               PROVE  OutboxInv' /\ LinkInv'
    OBVIOUS
  <2>1. CASE Next
    <3>1. PICK w \in Worker : Step(w) \/ Crash(w) \/ Restart(w)
      BY <2>1 DEF Next
    <3> QED
      BY <3>1, OutboxStep, LinkStep DEF CrawlInv
  <2>2. CASE UNCHANGED vars
    <3>1. OutboxInv'
      BY <2>2 DEF OutboxInv, Outgoing, JobOf, Current, vars, shared, local
    <3>2. /\ stored' = stored /\ frontier' = frontier /\ pc' = pc
          /\ Entries' = Entries
          /\ \A w \in Worker : /\ Outgoing(w)' = Outgoing(w)
                               /\ Held(w)' = Held(w)
                               /\ JobOf(w)' = JobOf(w)
                               /\ Current(w)' = Current(w)
      BY <2>2 DEF Entries, Outgoing, Held, JobOf, Current, vars, shared, local
    <3>3. \A s \in stored : \A i \in frontier.pending :
              Tends(i, s) => Tends(i, s)'
      BY <3>2 DEF Tends, Linked
    <3>4. LinkInv'
      BY <3>2, <3>3 DEF LinkInv, Linked
    <3> QED
      BY <3>1, <3>4
  <2> QED
    BY <2>1, <2>2
<1> QED
  BY CrawlInvariant, <1>1, <1>2, PTL DEF Spec

\* A stored page above the maximum depth has all its links in the frontier
\* one level deeper, or its message waits in the pending list, whatever
\* crashed and in whatever order.
THEOREM CrawlFrontierIsClosed == Spec => []FrontierClosed
<1>1. LinkInv => FrontierClosed
  BY DEF LinkInv, Tends, Linked, FrontierClosed, HasPending
<1> QED
  BY LinkInvariant, <1>1, PTL

-----------------------------------------------------------------------------
(***************************************************************************)
(* Idle shutdown.  As long as nothing crashed, what is pending is in the   *)
(* hands of a live worker, or some worker stopped at its page limit and    *)
(* left it; and what is undelivered has a worker that still polls, since   *)
(* the last one to give up saw an empty stream.                            *)
(***************************************************************************)
StopInv ==
    crashes = 0 =>
        /\ \A w \in Worker : pc[w] # "crashed"
        /\ \/ \A i \in frontier.pending :
                 \E w \in Worker : pc[w] \in Busy /\ i \in Held(w)
           \/ \E w \in Worker : pc[w] = "stopped" /\ ReachedMaxPages(w)
        /\ HasNew(frontier) =>
               \E w \in Worker : pc[w] # "stopped" \/ ReachedMaxPages(w)

\* A worker that reached its page limit stays there until it is restarted.
LEMMA LimitIsKept ==
    ASSUME Typed, NEW w \in Worker, Step(w) \/ Crash(w), NEW v \in Worker,
           ReachedMaxPages(v)
    PROVE  ReachedMaxPages(v)'
<1>1. crawled'[v] = crawled[v] \/ crawled'[v] = crawled[v] + 1
  BY DEF Typed, TypeOK, Step, Start, PublishSeed, PublishOutlink, PublishNext,
         Receive, IdlePoll, StopAtMaxPages, Claim, RobotsAllow, RobotsRefuse,
         FetchFails, FetchSucceeds, PutPage, Announce, AckCurrent, Crash,
         Discard, local
<1>2. crawled[v] \in Nat
  BY DEF Typed, TypeOK
<1> QED
  BY <1>1, <1>2, CrawlAssumption DEF ReachedMaxPages

\* Every step that is not a crash keeps the work in hands.
LEMMA StopStep ==
    ASSUME Typed, StopInv, NEW w \in Worker, Step(w) \/ Crash(w) \/ Restart(w)
    PROVE  StopInv'
<1> USE DEF Goto
<1> SUFFICES ASSUME crashes' = 0 PROVE StopInv'
  BY DEF StopInv
<1>1. ~Crash(w) /\ crashes = 0
  <2>1. ~Crash(w)
    BY DEF Crash, Typed, TypeOK
  <2> QED
    BY <2>1
       DEF Step, Start, PublishSeed, PublishOutlink, PublishNext, Receive,
           IdlePoll, StopAtMaxPages, Claim, RobotsAllow, RobotsRefuse,
           FetchFails, FetchSucceeds, PutPage, Announce, AckCurrent, Restart,
           Discard, history
<1>2. Step(w)
  BY <1>1 DEF StopInv, Restart
<1>3. \A v \in Worker \ {w} :
          pc'[v] = pc[v] /\ batch'[v] = batch[v] /\ Held(v)' = Held(v)
  BY Frame DEF Held
<1>4. \A v \in Worker : ReachedMaxPages(v) => ReachedMaxPages(v)'
  BY <1>2, LimitIsKept
<1>5. pc[w] # "stopped" /\ pc'[w] # "crashed"
  BY <1>2
     DEF Step, Start, PublishSeed, PublishOutlink, PublishNext, Receive,
         IdlePoll, StopAtMaxPages, Claim, RobotsAllow, RobotsRefuse,
         FetchFails, FetchSucceeds, PutPage, Announce, AckCurrent, Discard,
         Typed, TypeOK
<1>6. pc'[w] = "stopped" =>
          /\ StopAtMaxPages(w) \/ IdlePoll(w)
          /\ ReachedMaxPages(w)' \/ ~HasNew(frontier')
  <2>1. ASSUME StopAtMaxPages(w) PROVE ReachedMaxPages(w)'
    BY <1>4, <2>1 DEF StopAtMaxPages
  <2>2. ASSUME IdlePoll(w) PROVE ~HasNew(frontier')
    BY <2>2 DEF IdlePoll, shared
  <2>3. pc'[w] = "stopped" => StopAtMaxPages(w) \/ IdlePoll(w)
    BY <1>2
       DEF Step, Start, PublishSeed, PublishOutlink, PublishNext, Receive,
           Claim, RobotsAllow, RobotsRefuse, FetchFails, FetchSucceeds,
           PutPage, Announce, AckCurrent, Discard, Typed, TypeOK
  <2> QED
    BY <2>1, <2>2, <2>3
<1>7. \A v \in Worker : pc'[v] # "crashed"
  BY <1>1, <1>3, <1>5 DEF StopInv
<1>8. HasNew(frontier') =>
          \E v \in Worker : pc'[v] # "stopped" \/ ReachedMaxPages(v)'
  BY <1>6
<1>9. \/ \A i \in frontier'.pending :
            \E v \in Worker : pc'[v] \in Busy /\ i \in Held(v)'
      \/ \E v \in Worker : pc'[v] = "stopped" /\ ReachedMaxPages(v)'
  <2>1. CASE \E v \in Worker : pc[v] = "stopped" /\ ReachedMaxPages(v)
    BY <1>3, <1>4, <1>5, <2>1
  <2>2. CASE StopAtMaxPages(w)
    <3>1. pc'[w] = "stopped" /\ ReachedMaxPages(w)
      BY <2>2 DEF StopAtMaxPages, Typed, TypeOK
    <3> QED
      BY <1>4, <3>1
  <2>3. CASE ~StopAtMaxPages(w) /\ ~(\E v \in Worker : pc[v] = "stopped"
                                               /\ ReachedMaxPages(v))
    <3>1. \A i \in frontier.pending :
              \E v \in Worker : pc[v] \in Busy /\ i \in Held(v)
      BY <1>1, <2>3 DEF StopInv
    <3>2. CASE Receive(w)
      <4>1. pc[w] \notin Busy /\ pc'[w] \in Busy
        BY <3>2 DEF Receive, Busy, Typed, TypeOK
      <4> QED
        BY <1>3, <3>1, <3>2, <4>1, ReceiveEffect
    <3>3. CASE AckCurrent(w)
      <4>1. Held(w)' # {} => pc'[w] \in Busy
        <5>1. CASE Current(w) = batch[w].last
          <6>1. Held(w) = {Current(w)}
            <7>1. batch[w].next = batch[w].last /\ batch[w].last \in Nat
              BY <5>1 DEF Current, Typed, TypeOK
            <7> QED
              BY <7>1 DEF Held, Current
          <6> QED
            BY <3>3, <6>1, AckEffect
        <5>2. CASE Current(w) # batch[w].last
          BY <3>3, <5>2 DEF AckCurrent, Busy, Typed, TypeOK
        <5> QED
          BY <5>1, <5>2
      <4> QED
        BY <1>3, <3>1, <3>3, <4>1, AckEffect
    <3>4. CASE ~Receive(w) /\ ~AckCurrent(w)
      <4>1. frontier'.pending = frontier.pending
        BY <3>4, GroupUnchanged
      <4>2. pc[w] \in Busy => pc'[w] \in Busy /\ batch'[w] = batch[w]
        BY <1>2, <2>3, <3>4
           DEF Step, Start, PublishSeed, PublishOutlink, PublishNext,
               IdlePoll, Claim, RobotsAllow, RobotsRefuse, FetchFails,
               FetchSucceeds, PutPage, Announce, Discard, local, Busy, Typed,
               TypeOK
      <4>3. pc[w] \in Busy => pc'[w] \in Busy /\ Held(w)' = Held(w)
        BY <4>2 DEF Held
      <4> QED
        BY <1>3, <3>1, <4>1, <4>3
    <3> QED
      BY <3>2, <3>3, <3>4
  <2> QED
    BY <2>1, <2>2, <2>3
<1> QED
  BY <1>7, <1>8, <1>9 DEF StopInv

\* Idle shutdown leaves nothing behind: neither undelivered nor unconfirmed.
THEOREM CrawlDrains == Spec => []IdleShutdownDrains
<1>1. Init => StopInv
  BY DEF Init, StopInv, EmptyStream, HasNew
<1>2. Typed /\ StopInv /\ [Next]_vars => StopInv'
  <2>1. ASSUME StopInv, UNCHANGED vars PROVE StopInv'
    BY <2>1 DEF StopInv, Held, HasNew, ReachedMaxPages, vars, shared, local,
                history
  <2> QED
    BY <2>1, StopStep DEF Next
<1>3. StopInv => IdleShutdownDrains
  BY DEF StopInv, IdleShutdownDrains, Busy
<1> QED
  BY TypedInvariant, <1>1, <1>2, <1>3, PTL DEF Spec
=============================================================================
