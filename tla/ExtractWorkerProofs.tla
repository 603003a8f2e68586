------------------------- MODULE ExtractWorkerProofs -------------------------
(***************************************************************************)
(* What holds of ExtractWorker for any number of workers, pages, crashes   *)
(* and limits: types; that no document is written twice; that what is      *)
(* confirmed is kept as long as no worker dies; and, when the worker that  *)
(* replaces another has an identity of its own, that part files are final, *)
(* hold whatever was fed to the incremental indexer, and are what the      *)
(* manifest says they are.                                                 *)
(***************************************************************************)
EXTENDS ExtractWorker, FiniteSetTheorems, SequenceTheorems, TLAPS

\* Publishing keeps a stream well typed.
LEMMA PublishType ==
    ASSUME NEW Payload, NEW s \in StreamOf(Payload), NEW m \in Payload
    PROVE  Publish(s, m) \in StreamOf(Payload)
<1>1. Append(s.entries, m) \in Seq(Payload)
  BY AppendProperties DEF StreamOf
<1> QED
  BY <1>1 DEF Publish, StreamOf

\* Consuming keeps a stream well typed.
LEMMA ConsumeType ==
    ASSUME NEW Payload, NEW s \in StreamOf(Payload), NEW count \in Nat
    PROVE  /\ Consume(s, count) \in StreamOf(Payload)
           /\ LastDelivered(s, count) \in Nat
<1>1. Len(s.entries) \in Nat /\ s.cursor \in Nat /\ s.pending \subseteq Nat
  BY DEF StreamOf
<1>2. LastDelivered(s, count) \in Nat
  BY <1>1 DEF LastDelivered
<1>3. (s.cursor + 1) .. LastDelivered(s, count) \subseteq Nat
  BY <1>1, <1>2
<1> QED
  BY <1>1, <1>2, <1>3 DEF Consume, StreamOf

\* Confirming keeps a stream well typed.
LEMMA AckType ==
    ASSUME NEW Payload, NEW s \in StreamOf(Payload), NEW id
    PROVE  Ack(s, id) \in StreamOf(Payload)
BY DEF Ack, StreamOf

-----------------------------------------------------------------------------

\* A worker's messages are delivered ones, and it is at one of them while it
\* reads or confirms.
BatchOk(w) ==
    /\ 1 <= batch[w].next
    /\ batch[w].last <= jobs.cursor
    /\ pc[w] \in {"read", "ack"} => InBatch(w)

BatchInv ==
    /\ jobs.cursor <= Len(jobs.entries)
    /\ \A w \in Worker : BatchOk(w)

\* There is something to write in a part, and something left to feed.
BufferOk(w) ==
    /\ pc[w] = "parts" => documents[w] # <<>>
    /\ pc[w] = "feed" => fed[w] < Len(documents[w])
    /\ pc[w] # "feed" => fed[w] = 0

BufferInv == \A w \in Worker : BufferOk(w)

Typed == TypeOK /\ BatchInv /\ BufferInv

-----------------------------------------------------------------------------
\* Where a flush begins is a step, and the parts come first if there are
\* documents.
LEMMA FlushStepType ==
    ASSUME NEW docs, NEW others, NEW nothing \in {"ack", "stopped", "manifest"}
    PROVE  /\ FlushStep(docs, others, nothing) \in {"parts", "refused", nothing}
           /\ FlushStep(docs, others, nothing) = "parts" => docs # <<>>
BY DEF FlushStep

\* The key of a worker's next part is the key of a part.
LEMMA KeyType ==
    ASSUME TypeOK, NEW w \in Worker
    PROVE  WorkerId(w) \in OwnerId /\ PartKeyOf(w) \in PartKey
BY DEF TypeOK, WorkerId, OwnerId, PartKeyOf, PartKey

\* A write changes the object of one key.
LEMMA PutEffect ==
    ASSUME NEW stored, NEW key, NEW body
    PROVE  /\ DOMAIN PutObject(stored, key, body) = DOMAIN stored \cup {key}
           /\ PutObject(stored, key, body)[key] = body
           /\ \A k \in DOMAIN stored \ {key} :
                 PutObject(stored, key, body)[k] = stored[k]
BY DEF PutObject

\* The page of a worker that reads is a page.
LEMMA PageType ==
    ASSUME Typed, NEW w \in Worker, pc[w] = "read"
    PROVE  PageOf(w) \in Page
<1>1. Current(w) \in 1 .. Len(jobs.entries)
  BY DEF Typed, TypeOK, BatchInv, BatchOk, StreamOf, Current, InBatch
<1> QED
  BY <1>1, ElementOfSeq DEF Typed, TypeOK, StreamOf, PageOf

\* The initial state is well typed.
LEMMA TypedInit == Init => Typed
<1> SUFFICES ASSUME Init PROVE Typed
  OBVIOUS
<1>1. jobs \in StreamOf(Page)
  BY DEF Init, EmptyStream, StreamOf
<1>2. DOMAIN NoObjects = {}
  BY DEF NoObjects
<1>3. TypeOK
  BY <1>1, <1>2, ExtractAssumption
     DEF Init, TypeOK, EmptyBatch, NothingYet, Steps
<1> QED
  BY <1>3 DEF Init, Typed, BatchInv, BatchOk, BufferInv, BufferOk, EmptyStream,
              EmptyBatch

\* A step of a worker leaves what the others know alone, and takes nothing
\* back from the stream.
LEMMA Frame ==
    ASSUME TypeOK, NEW w \in Worker, Step(w) \/ Crash(w) \/ Restart(w),
           NEW v \in Worker, v # w
    PROVE  /\ pc'[v] = pc[v] /\ batch'[v] = batch[v]
           /\ documents'[v] = documents[v] /\ discarded'[v] = discarded[v]
           /\ fed'[v] = fed[v] /\ partSeq'[v] = partSeq[v] /\ runs'[v] = runs[v]
<1> USE DEF TypeOK, Goto, services, loop, buffers, history
<1>1. CASE Receive(w) \/ ReadMissing(w) \/ AckCurrent(w)
  BY <1>1 DEF Receive, ReadMissing, AckCurrent
<1>2. CASE IdlePoll(w)
  BY <1>2 DEF IdlePoll, LastFlush
<1>3. CASE StopAtMaxPages(w)
  BY <1>3 DEF StopAtMaxPages, LastFlush
<1>4. CASE ReadPage(w)
  BY <1>4 DEF ReadPage
<1>5. CASE PutDocuments(w)
  BY <1>5 DEF PutDocuments
<1>6. CASE FeedUpdate(w)
  BY <1>6 DEF FeedUpdate
<1>7. CASE PutDiscarded(w)
  BY <1>7 DEF PutDiscarded
<1>8. CASE PutManifest(w)
  BY <1>8 DEF PutManifest
<1>9. CASE Crash(w)
  BY <1>9 DEF Crash
<1>10. CASE Restart(w)
  BY <1>10 DEF Restart
<1> QED
  BY <1>1, <1>2, <1>3, <1>4, <1>5, <1>6, <1>7, <1>8, <1>9, <1>10 DEF Step

\* Every step of the extraction keeps the types, and the bounds of the worker
\* that takes it.
LEMMA OwnStep ==
    ASSUME Typed, NEW w \in Worker, Step(w) \/ Crash(w) \/ Restart(w)
    PROVE  /\ TypeOK'
           /\ jobs.cursor <= jobs'.cursor /\ jobs'.cursor <= Len(jobs'.entries)
           /\ BatchOk(w)' /\ BufferOk(w)'
<1> DEFINE JobsOk == jobs.cursor <= jobs'.cursor /\ jobs'.cursor <= Len(jobs'.entries)
<1>a. /\ TypeOK
      /\ jobs.cursor \in Nat /\ Len(jobs.entries) \in Nat
      /\ jobs.cursor <= Len(jobs.entries)
      /\ BatchOk(w) /\ BufferOk(w)
  BY LenProperties DEF Typed, TypeOK, StreamOf, BatchInv, BufferInv
<1>b. jobs' = jobs => JobsOk
  BY <1>a
<1>1. CASE Receive(w)
  <2> DEFINE last == LastDelivered(jobs, BatchSize)
  <2>1. last \in Nat /\ jobs.cursor < last /\ last <= Len(jobs.entries)
    BY <1>1, <1>a, ExtractAssumption DEF Receive, LastDelivered, HasNew
  <2>2. jobs' \in StreamOf(Page)
    BY <1>1, <1>a, ConsumeType, ExtractAssumption DEF Receive, TypeOK
  <2>3. jobs'.cursor = last /\ jobs'.entries = jobs.entries
    BY <1>1, <1>a DEF Receive, Consume, TypeOK, StreamOf
  <2>4. batch' = [batch EXCEPT ![w] = [next |-> jobs.cursor + 1, last |-> last]]
    BY <1>1 DEF Receive
  <2>5. batch' \in [Worker -> [next: Nat, last: Nat]]
    BY <1>a, <2>1, <2>4 DEF TypeOK
  <2>6. pc' = [pc EXCEPT ![w] = "read"] /\ idle' = [idle EXCEPT ![w] = 0]
    BY <1>1 DEF Receive, Goto
  <2>7. pc' \in [Worker -> Steps] /\ idle' \in [Worker -> Nat]
    BY <1>a, <2>6 DEF TypeOK, Steps
  <2>8. TypeOK'
    BY <1>1, <1>a, <2>2, <2>5, <2>7 DEF Receive, TypeOK, buffers, history
  <2>9. batch'[w] = [next |-> jobs.cursor + 1, last |-> last]
    BY <1>a, <2>4 DEF TypeOK
  <2>10. BatchOk(w)'
    BY <1>a, <2>1, <2>3, <2>9 DEF BatchOk, InBatch
  <2>11. BufferOk(w)'
    BY <1>1, <1>a, <2>6 DEF Receive, BufferOk, TypeOK, buffers
  <2> QED
    BY <1>a, <2>1, <2>3, <2>8, <2>10, <2>11
<1>2. CASE IdlePoll(w)
  <2>1. PICK step \in {"poll", "parts", "refused", "stopped"} :
            /\ pc' = [pc EXCEPT ![w] = step]
            /\ step = "parts" => documents[w] # <<>>
    BY <1>2, FlushStepType DEF IdlePoll, LastFlush, Goto
  <2>2. pc' \in [Worker -> Steps] /\ idle' \in [Worker -> Nat]
    BY <1>2, <1>a, <2>1 DEF IdlePoll, TypeOK, Steps
  <2>3. UNCHANGED <<services, batch, processed, buffers, history>>
    BY <1>2 DEF IdlePoll
  <2>4. TypeOK'
    BY <1>a, <2>2, <2>3 DEF TypeOK, services, buffers, history
  <2>5. BatchOk(w)' /\ BufferOk(w)'
    BY <1>2, <1>a, <2>1, <2>3
       DEF IdlePoll, BatchOk, BufferOk, InBatch, TypeOK, services, buffers
  <2> QED
    BY <1>b, <2>3, <2>4, <2>5 DEF services
<1>3. CASE StopAtMaxPages(w)
  <2>1. PICK step \in {"parts", "refused", "stopped"} :
            /\ pc' = [pc EXCEPT ![w] = step]
            /\ step = "parts" => documents[w] # <<>>
    BY <1>3, FlushStepType DEF StopAtMaxPages, LastFlush, Goto
  <2>2. batch' = [batch EXCEPT ![w] = [next |-> 1, last |-> 0]]
    BY <1>3 DEF StopAtMaxPages, EmptyBatch
  <2>3. UNCHANGED <<services, processed, idle, buffers, history>>
    BY <1>3 DEF StopAtMaxPages
  <2>4. pc' \in [Worker -> Steps]
    BY <1>a, <2>1 DEF TypeOK, Steps
  <2>5. batch' \in [Worker -> [next: Nat, last: Nat]] /\ batch'[w] = [next |-> 1, last |-> 0]
    BY <1>a, <2>2 DEF TypeOK
  <2>6. TypeOK'
    BY <1>a, <2>3, <2>4, <2>5 DEF TypeOK, services, buffers, history
  <2>7. pc'[w] \in {"parts", "refused", "stopped"}
    BY <1>a, <2>1 DEF TypeOK
  <2>8. BatchOk(w)'
    BY <1>a, <2>3, <2>5, <2>7 DEF BatchOk, services
  <2>9. BufferOk(w)'
    BY <1>3, <1>a, <2>1, <2>3 DEF StopAtMaxPages, BufferOk, TypeOK, buffers
  <2> QED
    BY <1>b, <2>3, <2>6, <2>8, <2>9 DEF services
<1>4. CASE ReadPage(w)
  <2>1. PageOf(w) \in Page
    BY <1>4, PageType DEF ReadPage
  <2>2. /\ documents' \in [Worker -> Seq(Indexable)]
        /\ discarded' \in [Worker -> Seq(Page \ Indexable)]
    <3>1. CASE PageOf(w) \in Indexable
      <4>1. Append(documents[w], PageOf(w)) \in Seq(Indexable)
        BY <1>a, <3>1, AppendProperties DEF TypeOK
      <4> QED
        BY <1>4, <1>a, <3>1, <4>1 DEF ReadPage, TypeOK
    <3>2. CASE PageOf(w) \notin Indexable
      <4>1. Append(discarded[w], PageOf(w)) \in Seq(Page \ Indexable)
        BY <1>a, <2>1, <3>2, AppendProperties DEF TypeOK
      <4> QED
        BY <1>4, <1>a, <3>2, <4>1 DEF ReadPage, TypeOK
    <3> QED
      BY <3>1, <3>2
  <2>3. PICK step \in {"ack", "parts", "refused"} :
            /\ pc' = [pc EXCEPT ![w] = step]
            /\ step = "parts" => documents'[w] # <<>>
    BY <1>4, FlushStepType DEF ReadPage, Goto
  <2>4. UNCHANGED <<services, batch, idle, fed, partSeq, written, history>>
    BY <1>4 DEF ReadPage
  <2>5. processed' \in [Worker -> Nat] /\ pc' \in [Worker -> Steps]
    <3>1. processed' = [processed EXCEPT ![w] = @ + 1]
      BY <1>4 DEF ReadPage
    <3>2. processed' \in [Worker -> Nat]
      BY <1>a, <3>1 DEF TypeOK
    <3>3. pc' \in [Worker -> Steps]
      BY <1>a, <2>3 DEF TypeOK, Steps
    <3> QED
      BY <3>2, <3>3
  <2>6. TypeOK'
    BY <1>a, <2>2, <2>4, <2>5 DEF TypeOK, services, history
  <2>7. pc[w] = "read" /\ pc'[w] = step
    BY <1>4, <1>a, <2>3 DEF ReadPage, TypeOK
  <2>8. BatchOk(w)' /\ BufferOk(w)'
    BY <1>a, <2>3, <2>4, <2>7 DEF BatchOk, BufferOk, InBatch, services
  <2> QED
    BY <1>b, <2>4, <2>6, <2>8 DEF services
<1>5. CASE ReadMissing(w)
  <2>1. PageOf(w) \in Page
    BY <1>5, PageType DEF ReadMissing
  <2>2. pc' \in [Worker -> Steps] /\ pc[w] = "read" /\ pc'[w] = "ack"
    BY <1>5, <1>a DEF ReadMissing, Goto, TypeOK, Steps
  <2>3. missing' \subseteq Page /\ UNCHANGED <<services, loop, buffers, runs, crashes>>
    BY <1>5, <1>a, <2>1 DEF ReadMissing, TypeOK
  <2>4. TypeOK'
    BY <1>a, <2>2, <2>3 DEF TypeOK, services, loop, buffers
  <2>5. BatchOk(w)' /\ BufferOk(w)'
    BY <1>a, <2>2, <2>3 DEF BatchOk, BufferOk, InBatch, services, loop, buffers
  <2> QED
    BY <1>b, <2>3, <2>4, <2>5 DEF services
<1>6. CASE PutDocuments(w)
  <2>1. parts' = PutObject(parts, PartKeyOf(w), documents[w])
    BY <1>6 DEF PutDocuments
  <2>2. /\ DOMAIN parts' = DOMAIN parts \cup {PartKeyOf(w)}
        /\ parts'[PartKeyOf(w)] = documents[w]
        /\ \A k \in DOMAIN parts \ {PartKeyOf(w)} : parts'[k] = parts[k]
    BY <2>1 DEF PutObject
  <2>3. documents[w] \in Seq(Indexable)
    BY <1>a DEF TypeOK
  <2>4. DOMAIN parts' \cup DOMAIN refused \subseteq PartKey
    BY <1>a, <2>2, KeyType DEF TypeOK
  <2>5. \A k \in DOMAIN parts' : parts'[k] \in Seq(Indexable)
    <3>1. \A k \in DOMAIN parts : parts[k] \in Seq(Indexable)
      BY <1>a DEF TypeOK
    <3> QED
      BY <2>2, <2>3, <3>1
  <2>6. pc' \in [Worker -> Steps] /\ pc[w] = "parts" /\ pc'[w] = "feed"
    BY <1>6, <1>a DEF PutDocuments, Goto, TypeOK, Steps
  <2>7. UNCHANGED <<jobs, pages, refused, manifests, updates, loop, buffers, history>>
    BY <1>6 DEF PutDocuments
  <2>8. TypeOK'
    BY <1>a, <2>4, <2>5, <2>6, <2>7 DEF TypeOK, loop, buffers, history
  <2>9. Len(documents[w]) \in Nat /\ (documents[w] # <<>> => 0 < Len(documents[w]))
    BY <2>3, EmptySeq, LenProperties
  <2>10. BatchOk(w)' /\ BufferOk(w)'
    BY <1>a, <2>6, <2>7, <2>9 DEF BatchOk, BufferOk, loop, buffers
  <2> QED
    BY <1>b, <2>7, <2>8, <2>10
<1>7. CASE FeedUpdate(w)
  <2>1. Len(documents[w]) \in Nat /\ fed[w] \in Nat /\ documents[w] \in Seq(Indexable)
    BY <1>a, LenProperties DEF TypeOK
  <2>2. pc[w] = "feed" /\ fed[w] + 1 \in 1 .. Len(documents[w])
    BY <1>7, <1>a, <2>1 DEF FeedUpdate, BufferOk
  <2>3. documents[w][fed[w] + 1] \in Indexable
    BY <2>1, <2>2, ElementOfSeq
  <2>4. updates' \in Seq(Indexable)
    BY <1>7, <1>a, <2>3, AppendProperties DEF FeedUpdate, TypeOK
  <2>5. UNCHANGED <<jobs, pages, parts, refused, manifests, loop, discarded,
                    partSeq, history>>
    BY <1>7 DEF FeedUpdate
  <2>6. CASE fed[w] + 1 < Len(documents[w])
    <3>1. fed' = [fed EXCEPT ![w] = fed[w] + 1] /\ UNCHANGED <<pc, documents, written>>
      BY <1>7, <2>6 DEF FeedUpdate
    <3>2. fed' \in [Worker -> Nat] /\ fed'[w] = fed[w] + 1
      BY <1>a, <2>1, <3>1 DEF TypeOK
    <3>3. TypeOK'
      BY <1>a, <2>4, <2>5, <3>1, <3>2 DEF TypeOK, loop, history
    <3>4. BatchOk(w)' /\ BufferOk(w)'
      BY <1>a, <2>2, <2>5, <2>6, <3>1, <3>2 DEF BatchOk, BufferOk, loop
    <3> QED
      BY <1>b, <2>5, <3>3, <3>4
  <2>7. CASE ~(fed[w] + 1 < Len(documents[w]))
    <3>1. /\ fed' = [fed EXCEPT ![w] = 0]
          /\ written' = [written EXCEPT ![w].documents = @ + Len(documents[w])]
          /\ documents' = [documents EXCEPT ![w] = <<>>]
          /\ pc' = [pc EXCEPT ![w] = FlushStep(<<>>, discarded[w], "manifest")]
      BY <1>7, <2>7 DEF FeedUpdate, Goto
    <3>2. FlushStep(<<>>, discarded[w], "manifest") \in {"refused", "manifest"}
      BY FlushStepType
    <3>3. written' \in [Worker -> [documents: Nat, discarded: Nat]]
      <4>1. written[w] \in [documents: Nat, discarded: Nat]
        BY <1>a DEF TypeOK
      <4>2. written[w].documents + Len(documents[w]) \in Nat
        BY <2>1, <4>1
      <4>3. [written[w] EXCEPT !.documents = @ + Len(documents[w])]
                \in [documents: Nat, discarded: Nat]
        BY <4>1, <4>2
      <4> QED
        BY <1>a, <3>1, <4>3 DEF TypeOK
    <3>4. /\ fed' \in [Worker -> Nat] /\ fed'[w] = 0
          /\ documents' \in [Worker -> Seq(Indexable)]
          /\ pc' \in [Worker -> Steps] /\ pc'[w] \in {"refused", "manifest"}
      BY <1>a, <3>1, <3>2, EmptySeq DEF TypeOK, Steps
    <3>5. TypeOK'
      BY <1>a, <2>4, <2>5, <3>3, <3>4 DEF TypeOK, loop, history
    <3>6. BatchOk(w)' /\ BufferOk(w)'
      BY <1>a, <2>5, <3>4 DEF BatchOk, BufferOk, loop
    <3> QED
      BY <1>b, <2>5, <3>5, <3>6
  <2> QED
    BY <2>6, <2>7
<1>8. CASE PutDiscarded(w)
  <2>1. refused' = PutObject(refused, PartKeyOf(w), discarded[w])
    BY <1>8 DEF PutDiscarded
  <2>2. /\ DOMAIN refused' = DOMAIN refused \cup {PartKeyOf(w)}
        /\ refused'[PartKeyOf(w)] = discarded[w]
        /\ \A k \in DOMAIN refused \ {PartKeyOf(w)} : refused'[k] = refused[k]
    BY <2>1 DEF PutObject
  <2>3. discarded[w] \in Seq(Page \ Indexable) /\ Len(discarded[w]) \in Nat
    BY <1>a, LenProperties DEF TypeOK
  <2>4. DOMAIN parts \cup DOMAIN refused' \subseteq PartKey
    BY <1>a, <2>2, KeyType DEF TypeOK
  <2>5. \A k \in DOMAIN refused' : refused'[k] \in Seq(Page \ Indexable)
    <3>1. \A k \in DOMAIN refused : refused[k] \in Seq(Page \ Indexable)
      BY <1>a DEF TypeOK
    <3> QED
      BY <2>2, <2>3, <3>1
  <2>6. /\ written' \in [Worker -> [documents: Nat, discarded: Nat]]
        /\ discarded' \in [Worker -> Seq(Page \ Indexable)]
    <3>1. written[w] \in [documents: Nat, discarded: Nat]
      BY <1>a DEF TypeOK
    <3>2. written[w].discarded + Len(discarded[w]) \in Nat
      BY <2>3, <3>1
    <3>3. [written[w] EXCEPT !.discarded = @ + Len(discarded[w])]
              \in [documents: Nat, discarded: Nat]
      BY <3>1, <3>2
    <3>4. written' = [written EXCEPT ![w].discarded = @ + Len(discarded[w])]
      BY <1>8 DEF PutDiscarded
    <3>5. written' \in [Worker -> [documents: Nat, discarded: Nat]]
      BY <1>a, <3>3, <3>4 DEF TypeOK
    <3>6. discarded' = [discarded EXCEPT ![w] = <<>>]
      BY <1>8 DEF PutDiscarded
    <3>7. <<>> \in Seq(Page \ Indexable)
      BY EmptySeq
    <3>8. discarded' \in [Worker -> Seq(Page \ Indexable)]
      BY <1>a, <3>6, <3>7 DEF TypeOK
    <3> QED
      BY <3>5, <3>8
  <2>7. pc' \in [Worker -> Steps] /\ pc[w] = "refused" /\ pc'[w] = "manifest"
    BY <1>8, <1>a DEF PutDiscarded, Goto, TypeOK, Steps
  <2>8. UNCHANGED <<jobs, pages, parts, manifests, updates, loop, documents,
                    fed, partSeq, history>>
    BY <1>8 DEF PutDiscarded
  <2>9. TypeOK'
    BY <1>a, <2>4, <2>5, <2>6, <2>7, <2>8 DEF TypeOK, loop, history
  <2>10. BatchOk(w)' /\ BufferOk(w)'
    BY <1>a, <2>7, <2>8 DEF BatchOk, BufferOk, loop
  <2> QED
    BY <1>b, <2>8, <2>9, <2>10
<1>9. CASE PutManifest(w)
  <2>1. DOMAIN manifests' = DOMAIN manifests \cup {WorkerId(w)}
    <3> DEFINE body == [count |-> written[w], files |-> partSeq'[w]]
    <3>1. manifests' = PutObject(manifests, WorkerId(w), body)
      BY <1>9 DEF PutManifest
    <3> HIDE DEF body
    <3> QED
      BY <3>1, PutEffect
  <2>2. DOMAIN manifests' \subseteq OwnerId
    BY <1>a, <2>1, KeyType DEF TypeOK
  <2>3. partSeq' \in [Worker -> Nat]
    BY <1>9, <1>a DEF PutManifest, TypeOK
  <2>4. PICK step \in {"ack", "stopped"} :
            /\ pc' = [pc EXCEPT ![w] = step]
            /\ step = "ack" => InBatch(w)
    BY <1>9 DEF PutManifest, Goto
  <2>5. pc' \in [Worker -> Steps] /\ pc[w] = "manifest" /\ pc'[w] = step
    BY <1>9, <1>a, <2>4 DEF PutManifest, TypeOK, Steps
  <2>6. UNCHANGED <<jobs, pages, parts, refused, updates, loop, documents,
                    discarded, fed, written, history>>
    BY <1>9 DEF PutManifest
  <2>7. TypeOK'
    BY <1>a, <2>2, <2>3, <2>5, <2>6 DEF TypeOK, loop, history
  <2>8. BatchOk(w)' /\ BufferOk(w)'
    BY <1>a, <2>4, <2>5, <2>6 DEF BatchOk, BufferOk, InBatch, loop
  <2> QED
    BY <1>b, <2>6, <2>7, <2>8
<1>10. CASE AckCurrent(w)
  <2>1. jobs' \in StreamOf(Page)
    BY <1>10, <1>a, AckType DEF AckCurrent, TypeOK
  <2>2. jobs'.cursor = jobs.cursor /\ jobs'.entries = jobs.entries
    BY <1>10, <1>a DEF AckCurrent, Ack, TypeOK, StreamOf
  <2>3. batch[w].next \in Nat /\ batch[w].last \in Nat
    BY <1>a DEF TypeOK
  <2>4. /\ batch' = [batch EXCEPT ![w].next = @ + 1]
        /\ UNCHANGED <<pages, parts, refused, manifests, updates, processed,
                       idle, buffers, history>>
    BY <1>10 DEF AckCurrent
  <2>5. batch' \in [Worker -> [next: Nat, last: Nat]]
    <3>1. [batch[w] EXCEPT !.next = @ + 1] \in [next: Nat, last: Nat]
      <4>1. batch[w].next + 1 \in Nat
        BY <2>3
      <4> QED
        BY <1>a, <4>1 DEF TypeOK
    <3> QED
      BY <1>a, <2>4, <3>1 DEF TypeOK
  <2>6. batch'[w].next = batch[w].next + 1 /\ batch'[w].last = batch[w].last
    BY <1>a, <2>4 DEF TypeOK
  <2>7. /\ pc' \in [Worker -> Steps] /\ pc[w] = "ack"
        /\ pc'[w] = IF batch[w].next = batch[w].last THEN "poll" ELSE "read"
    BY <1>10, <1>a DEF AckCurrent, Goto, Current, TypeOK, Steps
  <2>8. TypeOK'
    BY <1>a, <2>1, <2>4, <2>5, <2>7 DEF TypeOK, buffers, history
  <2>9. BatchOk(w)'
    BY <1>a, <2>2, <2>3, <2>6, <2>7 DEF BatchOk, InBatch
  <2>10. BufferOk(w)'
    BY <1>a, <2>4, <2>7 DEF BufferOk, buffers
  <2> QED
    BY <1>a, <2>2, <2>8, <2>9, <2>10
<1>11. CASE Crash(w)
  <2>1. /\ batch' = [batch EXCEPT ![w] = [next |-> 1, last |-> 0]]
        /\ written' = [written EXCEPT ![w] = [documents |-> 0, discarded |-> 0]]
        /\ pc' = [pc EXCEPT ![w] = "crashed"]
    BY <1>11 DEF Crash, Goto, EmptyBatch, NothingYet
  <2>2. /\ batch' \in [Worker -> [next: Nat, last: Nat]]
        /\ batch'[w] = [next |-> 1, last |-> 0]
        /\ written' \in [Worker -> [documents: Nat, discarded: Nat]]
        /\ pc' \in [Worker -> Steps] /\ pc'[w] = "crashed"
    BY <1>a, <2>1 DEF TypeOK, Steps
  <2>3. /\ documents' \in [Worker -> Seq(Indexable)]
        /\ discarded' \in [Worker -> Seq(Page \ Indexable)]
    BY <1>11, <1>a, EmptySeq DEF Crash, TypeOK
  <2>4. /\ fed' \in [Worker -> Nat] /\ partSeq' \in [Worker -> Nat]
        /\ processed' \in [Worker -> Nat] /\ idle' \in [Worker -> Nat]
        /\ crashes' \in Nat /\ fed'[w] = 0
    BY <1>11, <1>a DEF Crash, TypeOK
  <2>5. UNCHANGED <<services, runs, missing>>
    BY <1>11 DEF Crash
  <2>6. TypeOK'
    BY <1>a, <2>2, <2>3, <2>4, <2>5 DEF TypeOK, services
  <2>7. BatchOk(w)' /\ BufferOk(w)'
    BY <1>a, <2>2, <2>4, <2>5 DEF BatchOk, BufferOk, services
  <2> QED
    BY <1>b, <2>5, <2>6, <2>7 DEF services
<1>12. CASE Restart(w)
  <2>1. /\ pc' \in [Worker -> Steps] /\ pc[w] = "crashed" /\ pc'[w] = "poll"
        /\ runs' \in [Worker -> Nat]
    BY <1>12, <1>a DEF Restart, Goto, TypeOK, Steps
  <2>2. UNCHANGED <<services, loop, buffers, missing, crashes>>
    BY <1>12 DEF Restart
  <2>3. TypeOK'
    BY <1>a, <2>1, <2>2 DEF TypeOK, services, loop, buffers
  <2>4. BatchOk(w)' /\ BufferOk(w)'
    BY <1>a, <2>1, <2>2 DEF BatchOk, BufferOk, services, loop, buffers
  <2> QED
    BY <1>b, <2>2, <2>3, <2>4 DEF services
<1> QED
  BY <1>1, <1>2, <1>3, <1>4, <1>5, <1>6, <1>7, <1>8, <1>9, <1>10, <1>11, <1>12
     DEF Step

LEMMA TypedStep ==
    ASSUME Typed, NEW w \in Worker, Step(w) \/ Crash(w) \/ Restart(w)
    PROVE  Typed'
<1>1. /\ TypeOK'
      /\ jobs.cursor <= jobs'.cursor /\ jobs'.cursor <= Len(jobs'.entries)
      /\ BatchOk(w)' /\ BufferOk(w)'
  BY OwnStep
<1>2. jobs.cursor \in Nat /\ jobs'.cursor \in Nat
  BY <1>1 DEF Typed, TypeOK, StreamOf
<1>3. ASSUME NEW v \in Worker, v # w
      PROVE  BatchOk(v)' /\ BufferOk(v)'
  <2>1. /\ pc'[v] = pc[v] /\ batch'[v] = batch[v]
        /\ documents'[v] = documents[v] /\ fed'[v] = fed[v]
    BY <1>3, Frame DEF Typed
  <2>2. BatchOk(v) /\ BufferOk(v) /\ batch[v].last \in Nat
    BY DEF Typed, BatchInv, BufferInv, TypeOK
  <2> QED
    BY <1>1, <1>2, <2>1, <2>2 DEF BatchOk, BufferOk, InBatch
<1>4. BatchInv' /\ BufferInv'
  BY <1>1, <1>3 DEF BatchInv, BufferInv
<1> QED
  BY <1>1, <1>4 DEF Typed

\* An announcement keeps them too.
LEMMA TypedAnnounce ==
    ASSUME Typed, NEW p \in Page, Announce(p)
    PROVE  Typed'
<1>1. /\ jobs' \in StreamOf(Page) /\ jobs'.cursor = jobs.cursor
      /\ Len(jobs'.entries) = Len(jobs.entries) + 1
  <2>1. jobs \in StreamOf(Page) /\ jobs.entries \in Seq(Page)
    BY DEF Typed, TypeOK, StreamOf
  <2>2. jobs' = Publish(jobs, p)
    BY DEF Announce
  <2>3. jobs' \in StreamOf(Page)
    BY <2>1, <2>2, PublishType
  <2>4. jobs'.cursor = jobs.cursor /\ jobs'.entries = Append(jobs.entries, p)
    BY <2>1, <2>2 DEF Publish, StreamOf
  <2> QED
    BY <2>1, <2>3, <2>4, AppendProperties
<1>2. TypeOK'
  BY <1>1 DEF Announce, Typed, TypeOK, loop, buffers, history
<1>3. BatchInv' /\ BufferInv'
  BY <1>1 DEF Announce, Typed, TypeOK, StreamOf, BatchInv, BatchOk, BufferInv,
              BufferOk, InBatch, loop, buffers
<1> QED
  BY <1>2, <1>3 DEF Typed

LEMMA TypedNext == Typed /\ [Next]_vars => Typed'
<1>1. ASSUME Typed, UNCHANGED vars PROVE Typed'
  BY <1>1 DEF Typed, TypeOK, BatchInv, BatchOk, BufferInv, BufferOk, InBatch,
              vars, services, loop, buffers, history
<1> QED
  BY <1>1, TypedStep, TypedAnnounce DEF Next

\* Type correctness, whatever the workers, the pages and the limits.
THEOREM ExtractTypes == Spec => []TypeOK
<1>1. Typed => TypeOK
  BY DEF Typed
<1> QED
  BY TypedInit, TypedNext, <1>1, PTL DEF Spec
-----------------------------------------------------------------------------
(***************************************************************************)
(* Part files are final.  A key has its owner and a number; a worker that  *)
(* has an identity of its own finds nothing under the number it writes     *)
(* next, because whatever is under its identity has a smaller number, or   *)
(* the number of the flush it is in.  Every worker has such an identity if *)
(* replacements get a new one, and for as long as there are none.          *)
(***************************************************************************)

Distinct == ~KeepsId \/ crashes = 0

\* Without crashes nothing was replaced.
CrashInv ==
    crashes = 0 => \A w \in Worker : pc[w] # "crashed" /\ runs[w] = 0

\* No part is by a worker that does not exist yet.
OwnersInv ==
    \A k \in DOMAIN parts \cup DOMAIN refused, w \in Worker :
        k.owner[1] = w => k.owner[2] <= runs[w]

PartsInv(w) ==
    pc[w] # "crashed" =>
        \A k \in DOMAIN parts : k.owner = WorkerId(w) =>
            \/ k.seq < partSeq[w]
            \/ k.seq = partSeq[w] /\ pc[w] \in {"feed", "refused", "manifest"}

RefusedInv(w) ==
    pc[w] # "crashed" =>
        \A k \in DOMAIN refused : k.owner = WorkerId(w) =>
            \/ k.seq < partSeq[w]
            \/ k.seq = partSeq[w] /\ pc[w] = "manifest"

\* What is being fed is in the part that was just written.
FeedInv(w) ==
    pc[w] = "feed" => /\ PartKeyOf(w) \in DOMAIN parts
                      /\ parts[PartKeyOf(w)] = documents[w]

PartInv ==
    /\ OwnersInv
    /\ \A w \in Worker : PartsInv(w) /\ RefusedInv(w) /\ FeedInv(w)

Inv == Typed /\ CrashInv /\ (Distinct => PartInv)

\* The identity a worker has while all are distinct.
LEMMA OwnId ==
    ASSUME Distinct, CrashInv, NEW w \in Worker
    PROVE  WorkerId(w) = <<w, runs[w]>>
BY DEF Distinct, CrashInv, WorkerId

\* Crashes are counted, and those that replace a worker come after one.
LEMMA CrashStep ==
    ASSUME Typed, CrashInv, [Next]_vars
    PROVE  CrashInv' /\ (Distinct' => Distinct)
<1>1. CASE \E w \in Worker : Crash(w)
  BY <1>1 DEF Crash, CrashInv, Distinct, Typed, TypeOK
<1>2. CASE \E w \in Worker : Restart(w)
  BY <1>2 DEF Restart, CrashInv, Distinct
<1>3. ASSUME UNCHANGED <<runs, crashes>>,
             \A w \in Worker : pc'[w] = "crashed" => pc[w] = "crashed"
      PROVE  CrashInv' /\ (Distinct' => Distinct)
  BY <1>3 DEF CrashInv, Distinct
<1>4. CASE (\E p \in Page : Announce(p)) \/ UNCHANGED vars
  BY <1>3, <1>4 DEF Announce, vars, history
<1>5. ASSUME NEW w \in Worker, Step(w)
      PROVE  /\ UNCHANGED <<runs, crashes>>
             /\ \A v \in Worker : pc'[v] = "crashed" => pc[v] = "crashed"
  <2>1. UNCHANGED <<runs, crashes>>
    BY <1>5 DEF Step, Receive, IdlePoll, StopAtMaxPages, ReadPage, ReadMissing,
                PutDocuments, FeedUpdate, PutDiscarded, PutManifest, AckCurrent,
                history
  <2>2. pc' = pc \/ \E step \in Steps \ {"crashed"} : pc' = [pc EXCEPT ![w] = step]
    <3>1. CASE IdlePoll(w)
      BY <3>1, FlushStepType DEF IdlePoll, LastFlush, Goto, Steps
    <3>2. CASE StopAtMaxPages(w)
      BY <3>2, FlushStepType DEF StopAtMaxPages, LastFlush, Goto, Steps
    <3>3. CASE ReadPage(w)
      BY <3>3, FlushStepType DEF ReadPage, Goto, Steps
    <3>4. CASE FeedUpdate(w)
      BY <3>4, FlushStepType DEF FeedUpdate, Goto, Steps
    <3>5. CASE Receive(w) \/ ReadMissing(w) \/ PutDocuments(w) \/ PutDiscarded(w)
               \/ PutManifest(w) \/ AckCurrent(w)
      BY <3>5 DEF Receive, ReadMissing, PutDocuments, PutDiscarded, PutManifest,
                  AckCurrent, Goto, Steps
    <3> QED
      BY <1>5, <3>1, <3>2, <3>3, <3>4, <3>5 DEF Step
  <2> QED
    BY <2>1, <2>2 DEF Typed, TypeOK
<1> QED
  BY <1>1, <1>2, <1>3, <1>4, <1>5 DEF Next

\* What a step adds to a set of part files.
AddsOnly(files, new, w) ==
    /\ DOMAIN files \subseteq DOMAIN new
    /\ DOMAIN new \subseteq DOMAIN files \cup {PartKeyOf(w)}
    /\ \A k \in DOMAIN files : new[k] = files[k]

\* A worker writes its next part where nothing is.
LEMMA NextPartIsNew ==
    ASSUME Inv, Distinct, NEW w \in Worker
    PROVE  /\ pc[w] = "parts" => PartKeyOf(w) \notin DOMAIN parts
           /\ pc[w] = "refused" => PartKeyOf(w) \notin DOMAIN refused
<1>1. partSeq[w] \in Nat
  BY DEF Inv, Typed, TypeOK
<1>2. PartKeyOf(w).owner = WorkerId(w) /\ PartKeyOf(w).seq = partSeq[w]
  BY DEF PartKeyOf
<1> QED
  BY <1>1, <1>2 DEF Inv, PartInv, PartsInv, RefusedInv

\* So no step changes a part that is there.
LEMMA StepAdds ==
    ASSUME Inv, Distinct, NEW w \in Worker, Step(w) \/ Crash(w) \/ Restart(w)
    PROVE  /\ AddsOnly(parts, parts', w) /\ AddsOnly(refused, refused', w)
           /\ (DOMAIN parts' # DOMAIN parts \/ DOMAIN refused' # DOMAIN refused)
                 => UNCHANGED runs
<1>1. CASE PutDocuments(w)
  <2>1. PartKeyOf(w) \notin DOMAIN parts
    BY <1>1, NextPartIsNew DEF PutDocuments
  <2>2. parts' = PutObject(parts, PartKeyOf(w), documents[w])
    BY <1>1 DEF PutDocuments
  <2>3. AddsOnly(parts, parts', w)
    BY <2>1, <2>2 DEF AddsOnly, PutObject
  <2> QED
    BY <1>1, <2>3 DEF PutDocuments, AddsOnly, history
<1>2. CASE PutDiscarded(w)
  <2>1. PartKeyOf(w) \notin DOMAIN refused
    BY <1>2, NextPartIsNew DEF PutDiscarded
  <2>2. refused' = PutObject(refused, PartKeyOf(w), discarded[w])
    BY <1>2 DEF PutDiscarded
  <2>3. AddsOnly(refused, refused', w)
    BY <2>1, <2>2 DEF AddsOnly, PutObject
  <2> QED
    BY <1>2, <2>3 DEF PutDiscarded, AddsOnly, history
<1>3. CASE ~PutDocuments(w) /\ ~PutDiscarded(w)
  <2>1. UNCHANGED <<parts, refused>>
    BY <1>3 DEF Step, Receive, IdlePoll, StopAtMaxPages, ReadPage, ReadMissing,
                FeedUpdate, PutManifest, AckCurrent, Crash, Restart, services
  <2> QED
    BY <2>1 DEF AddsOnly
<1> QED
  BY <1>1, <1>2, <1>3

\* A container is only ever created anew.
LEMMA RunsGrow ==
    ASSUME Inv, NEW w \in Worker, Step(w) \/ Crash(w) \/ Restart(w), NEW v \in Worker
    PROVE  runs[v] \in Nat /\ runs'[v] \in Nat /\ runs[v] <= runs'[v]
<1>1. runs[v] \in Nat /\ runs'[v] \in Nat
  BY OwnStep DEF Inv, Typed, TypeOK
<1>2. CASE v = w /\ Restart(w)
  BY <1>1, <1>2 DEF Restart, Inv, Typed, TypeOK
<1>3. CASE v = w /\ ~Restart(w)
  <2>1. runs' = runs
    BY <1>3 DEF Step, Receive, IdlePoll, StopAtMaxPages, ReadPage, ReadMissing,
                PutDocuments, FeedUpdate, PutDiscarded, PutManifest, AckCurrent,
                Crash, history
  <2> QED
    BY <1>1, <2>1
<1>4. CASE v # w
  BY <1>1, <1>4, Frame DEF Inv, Typed
<1> QED
  BY <1>1, <1>2, <1>3, <1>4

\* Owners: a step adds parts of its worker only.
LEMMA OwnersStep ==
    ASSUME Inv, Distinct, NEW w \in Worker, Step(w) \/ Crash(w) \/ Restart(w)
    PROVE  OwnersInv'
<1> SUFFICES ASSUME NEW k \in DOMAIN parts' \cup DOMAIN refused',
                    NEW v \in Worker, k.owner[1] = v
             PROVE  k.owner[2] <= runs'[v]
  BY DEF OwnersInv
<1>1. runs[v] \in Nat /\ runs'[v] \in Nat
  BY RunsGrow
<1>2. runs[v] <= runs'[v]
  BY RunsGrow
<1>3. CASE k \in DOMAIN parts \cup DOMAIN refused
  <2>1. k.owner[2] <= runs[v]
    BY <1>3 DEF Inv, PartInv, OwnersInv
  <2>2. k.owner[2] \in Nat
    BY <1>3 DEF Inv, Typed, TypeOK, PartKey, OwnerId
  <2> QED
    BY <1>1, <1>2, <2>1, <2>2
<1>4. CASE k \notin DOMAIN parts \cup DOMAIN refused
  <2>1. k = PartKeyOf(w) /\ runs' = runs
    BY <1>4, StepAdds DEF AddsOnly
  <2>2. k.owner = <<w, runs[w]>>
    BY <2>1, OwnId DEF PartKeyOf, Inv
  <2> QED
    BY <1>1, <2>1, <2>2
<1> QED
  BY <1>3, <1>4

\* What a step does to its own worker's parts.
LEMMA OwnPartsStep ==
    ASSUME Inv, Distinct, NEW w \in Worker, Step(w) \/ Crash(w) \/ Restart(w)
    PROVE  Distinct' => PartsInv(w)' /\ RefusedInv(w)' /\ FeedInv(w)'
<1> SUFFICES ASSUME Distinct' PROVE PartsInv(w)' /\ RefusedInv(w)' /\ FeedInv(w)'
  OBVIOUS
<1>a. /\ TypeOK /\ partSeq[w] \in Nat
      /\ \A k \in DOMAIN parts \cup DOMAIN refused : k.seq \in Nat
      /\ PartsInv(w) /\ RefusedInv(w) /\ FeedInv(w)
  BY DEF Inv, Typed, TypeOK, PartInv, PartKey
<1>b. /\ DOMAIN parts' \subseteq DOMAIN parts \cup {PartKeyOf(w)}
      /\ DOMAIN refused' \subseteq DOMAIN refused \cup {PartKeyOf(w)}
  BY StepAdds DEF AddsOnly
<1>c. PartKeyOf(w).owner = WorkerId(w) /\ PartKeyOf(w).seq = partSeq[w]
  BY DEF PartKeyOf
<1>d. WorkerId(w) = <<w, runs[w]>> /\ WorkerId(w)' = <<w, runs'[w]>>
  <2>1. CrashInv'
    BY CrashStep DEF Inv, Next
  <2>2. KeepsId => runs'[w] = 0
    BY <2>1 DEF Distinct, CrashInv
  <2> QED
    BY <2>2, OwnId DEF Inv, WorkerId
<1> USE DEF PartsInv, RefusedInv, FeedInv
<1>1. CASE Receive(w) \/ IdlePoll(w) \/ StopAtMaxPages(w) \/ ReadPage(w)
           \/ ReadMissing(w) \/ AckCurrent(w)
  <2>1. UNCHANGED <<parts, refused, partSeq, runs>>
    BY <1>1 DEF Receive, IdlePoll, StopAtMaxPages, ReadPage, ReadMissing,
                AckCurrent, services, buffers, history
  <2>2. pc[w] \in {"poll", "read", "ack"}
    BY <1>1 DEF Receive, IdlePoll, StopAtMaxPages, ReadPage, ReadMissing,
                AckCurrent
  <2>3. PICK step : step # "feed" /\ pc' = [pc EXCEPT ![w] = step]
    <3>1. CASE Receive(w) \/ ReadMissing(w) \/ AckCurrent(w)
      BY <3>1 DEF Receive, ReadMissing, AckCurrent, Goto
    <3>2. CASE IdlePoll(w)
      BY <3>2, FlushStepType DEF IdlePoll, LastFlush, Goto
    <3>3. CASE StopAtMaxPages(w)
      BY <3>3, FlushStepType DEF StopAtMaxPages, LastFlush, Goto
    <3>4. CASE ReadPage(w)
      BY <3>4, FlushStepType DEF ReadPage, Goto
    <3> QED
      BY <1>1, <3>1, <3>2, <3>3, <3>4
  <2>4. pc'[w] # "feed"
    BY <1>a, <2>3 DEF TypeOK
  <2>5. WorkerId(w)' = WorkerId(w)
    BY <1>d, <2>1
  <2> QED
    BY <1>a, <2>1, <2>2, <2>4, <2>5
<1>2. CASE PutDocuments(w)
  <2>1. pc[w] = "parts" /\ pc'[w] = "feed"
    BY <1>2, <1>a DEF PutDocuments, Goto, TypeOK
  <2>2. UNCHANGED <<refused, partSeq, runs, documents>>
    BY <1>2 DEF PutDocuments, buffers, history
  <2>3. PartKeyOf(w)' = PartKeyOf(w) /\ WorkerId(w)' = WorkerId(w)
    BY <2>2, <1>d DEF PartKeyOf
  <2>4. PartKeyOf(w) \in DOMAIN parts' /\ parts'[PartKeyOf(w)] = documents[w]
    <3>1. parts' = PutObject(parts, PartKeyOf(w), documents[w])
      BY <1>2 DEF PutDocuments
    <3> QED
      BY <3>1 DEF PutObject
  <2> QED
    BY <1>a, <1>b, <1>c, <2>1, <2>2, <2>3, <2>4
<1>3. CASE FeedUpdate(w)
  <2>1. UNCHANGED <<parts, refused, partSeq, runs>>
    BY <1>3 DEF FeedUpdate, history
  <2>2. PartKeyOf(w)' = PartKeyOf(w) /\ WorkerId(w)' = WorkerId(w)
    BY <2>1, <1>d DEF PartKeyOf
  <2>3. pc[w] = "feed"
    BY <1>3 DEF FeedUpdate
  <2>4. \/ UNCHANGED <<pc, documents>>
        \/ pc'[w] \in {"refused", "manifest"}
    <3>1. FlushStep(<<>>, discarded[w], "manifest") \in {"refused", "manifest"}
      BY FlushStepType
    <3> QED
      BY <1>3, <1>a, <3>1 DEF FeedUpdate, Goto, TypeOK
  <2> QED
    BY <1>a, <2>1, <2>2, <2>3, <2>4
<1>4. CASE PutDiscarded(w)
  <2>1. pc[w] = "refused" /\ pc'[w] = "manifest"
    BY <1>4, <1>a DEF PutDiscarded, Goto, TypeOK
  <2>2. UNCHANGED <<parts, partSeq, runs>>
    BY <1>4 DEF PutDiscarded, history
  <2>3. WorkerId(w)' = WorkerId(w)
    BY <2>2, <1>d
  <2> QED
    BY <1>a, <1>b, <1>c, <2>1, <2>2, <2>3
<1>5. CASE PutManifest(w)
  <2>1. pc[w] = "manifest" /\ pc'[w] \in {"ack", "stopped"}
    BY <1>5, <1>a DEF PutManifest, Goto, TypeOK
  <2>2. UNCHANGED <<parts, refused, runs>> /\ partSeq'[w] = partSeq[w] + 1
    BY <1>5, <1>a DEF PutManifest, history, TypeOK
  <2>3. WorkerId(w)' = WorkerId(w)
    BY <2>2, <1>d
  <2> QED
    BY <1>a, <2>1, <2>2, <2>3
<1>6. CASE Crash(w)
  <2>1. pc'[w] = "crashed"
    BY <1>6, <1>a DEF Crash, Goto, TypeOK
  <2> QED
    BY <2>1
<1>7. CASE Restart(w)
  <2>1. UNCHANGED <<parts, refused>> /\ runs'[w] = runs[w] + 1 /\ runs[w] \in Nat
    BY <1>7, <1>a DEF Restart, services, TypeOK
  <2>2. pc'[w] = "poll"
    BY <1>7, <1>a DEF Restart, Goto, TypeOK
  <2>3. \A k \in DOMAIN parts \cup DOMAIN refused : k.owner # WorkerId(w)'
    <3> SUFFICES ASSUME NEW k \in DOMAIN parts \cup DOMAIN refused,
                        k.owner = <<w, runs[w] + 1>>
                 PROVE  FALSE
      BY <1>d, <2>1
    <3>1. k.owner[2] <= runs[w]
      BY DEF Inv, PartInv, OwnersInv
    <3> QED
      BY <2>1, <3>1
  <2> QED
    BY <2>1, <2>2, <2>3
<1> QED
  BY <1>1, <1>2, <1>3, <1>4, <1>5, <1>6, <1>7 DEF Step

LEMMA PartInvStep ==
    ASSUME Inv, Distinct, NEW w \in Worker, Step(w) \/ Crash(w) \/ Restart(w)
    PROVE  Distinct' => PartInv'
<1>1. ASSUME NEW v \in Worker, v # w
      PROVE  PartsInv(v)' /\ RefusedInv(v)' /\ FeedInv(v)'
  <2>1. /\ pc'[v] = pc[v] /\ documents'[v] = documents[v]
        /\ partSeq'[v] = partSeq[v] /\ runs'[v] = runs[v]
    BY <1>1, Frame DEF Inv, Typed
  <2>2. WorkerId(v)' = WorkerId(v) /\ PartKeyOf(v)' = PartKeyOf(v)
    BY <2>1 DEF WorkerId, PartKeyOf
  <2>3. PartKeyOf(w).owner # WorkerId(v)
    BY <1>1 DEF PartKeyOf, WorkerId
  <2>4. AddsOnly(parts, parts', w) /\ AddsOnly(refused, refused', w)
    BY StepAdds
  <2>5. PartsInv(v) /\ RefusedInv(v) /\ FeedInv(v)
    BY DEF Inv, PartInv
  <2> QED
    BY <2>1, <2>2, <2>3, <2>4, <2>5
       DEF PartsInv, RefusedInv, FeedInv, AddsOnly
<1> QED
  BY <1>1, OwnPartsStep, OwnersStep DEF PartInv

LEMMA PartInvariant == Spec => []Inv
<1>1. Init => Inv
  <2> SUFFICES ASSUME Init PROVE Inv
    OBVIOUS
  <2>1. DOMAIN parts = {} /\ DOMAIN refused = {}
    BY DEF Init, NoObjects
  <2>2. CrashInv
    BY DEF Init, CrashInv
  <2> QED
    BY <2>1, <2>2, TypedInit
       DEF Init, Inv, PartInv, OwnersInv, PartsInv, RefusedInv, FeedInv
<1>2. Inv /\ [Next]_vars => Inv'
  <2> SUFFICES ASSUME Inv, [Next]_vars PROVE Inv'
    OBVIOUS
  <2>1. Typed' /\ CrashInv' /\ (Distinct' => Distinct)
    BY TypedNext, CrashStep DEF Inv
  <2> SUFFICES ASSUME Distinct, Distinct' PROVE PartInv'
    BY <2>1 DEF Inv
  <2>2. ASSUME NEW w \in Worker, Step(w) \/ Crash(w) \/ Restart(w)
        PROVE  PartInv'
    BY <2>2, PartInvStep
  <2>3. ASSUME UNCHANGED <<parts, refused, buffers, history, pc>>
        PROVE  PartInv'
    BY <2>3 DEF Inv, PartInv, OwnersInv, PartsInv, RefusedInv, FeedInv,
                WorkerId, PartKeyOf, buffers, history
  <2>4. ASSUME NEW p \in Page, Announce(p) PROVE PartInv'
    BY <2>3, <2>4 DEF Announce
  <2>5. ASSUME UNCHANGED vars PROVE PartInv'
    BY <2>3, <2>5 DEF vars, services
  <2> QED
    BY <2>2, <2>4, <2>5 DEF Next
<1> QED
  BY <1>1, <1>2, PTL DEF Spec

\* What a part or a list of discarded pages has never changes again.
Final(files, new) ==
    \A k \in DOMAIN files : k \in DOMAIN new /\ new[k] = files[k]

LEMMA NextIsFinal ==
    ASSUME Inv, Distinct, [Next]_vars
    PROVE  Final(parts, parts') /\ Final(refused, refused')
<1>1. CASE \E w \in Worker : Step(w) \/ Crash(w) \/ Restart(w)
  BY <1>1, StepAdds DEF AddsOnly, Final
<1>2. CASE \E p \in Page : Announce(p)
  BY <1>2 DEF Announce, Final
<1>3. CASE UNCHANGED vars
  BY <1>3 DEF vars, services, Final
<1> QED
  BY <1>1, <1>2, <1>3 DEF Next

\* As long as a worker that replaces another has an identity of its own, no
\* part file is ever written again, whatever workers crash and wherever.
THEOREM ExtractPartsAreFinal ==
    ASSUME ~KeepsId
    PROVE  Spec => PartsAreFinal
<1>1. Inv /\ [Next]_vars =>
        [/\ \A k \in DOMAIN parts : k \in DOMAIN parts' /\ parts'[k] = parts[k]
         /\ \A k \in DOMAIN refused :
               k \in DOMAIN refused' /\ refused'[k] = refused[k]]_vars
  BY NextIsFinal DEF Final, Distinct
<1> QED
  BY <1>1, PartInvariant, PTL DEF Spec, PartsAreFinal

\* Under the same condition the incremental index never gets a document that
\* the batch index will not have.
THEOREM ExtractFeedsParts ==
    ASSUME ~KeepsId
    PROVE  Spec => []FedIsInParts
<1>1. Init => FedIsInParts
  <2>1. ToSet(<<>>) = {}
    BY DEF ToSet
  <2> QED
    BY <2>1 DEF Init, FedIsInParts
<1>2. Inv /\ FedIsInParts /\ [Next]_vars => FedIsInParts'
  <2> SUFFICES ASSUME Inv, FedIsInParts, [Next]_vars PROVE FedIsInParts'
    OBVIOUS
  <2>1. PagesIn(parts) \subseteq PagesIn(parts')
    BY NextIsFinal DEF PagesIn, Final, Distinct
  <2>2. ASSUME NEW w \in Worker, FeedUpdate(w) PROVE FedIsInParts'
    <3> DEFINE page == documents[w][fed[w] + 1]
    <3>1. pc[w] = "feed" /\ updates' = Append(updates, page)
      BY <2>2 DEF FeedUpdate
    <3>2. /\ documents[w] \in Seq(Indexable) /\ fed[w] \in Nat
          /\ updates \in Seq(Indexable)
      BY DEF Inv, Typed, TypeOK
    <3>3. fed[w] + 1 \in DOMAIN documents[w]
      BY <3>1, <3>2, LenProperties DEF Inv, Typed, BufferInv, BufferOk
    <3>4. page \in ToSet(documents[w])
      BY <3>3 DEF ToSet
    <3>5. page \in PagesIn(parts)
      BY <3>1, <3>4 DEF Inv, Distinct, PartInv, FeedInv, PagesIn
    <3>6. page \in Indexable
      BY <3>2, <3>3, ElementOfSeq, LenProperties
    <3> HIDE DEF page
    <3>7. ToSet(updates') \subseteq ToSet(updates) \cup {page}
      BY <3>1, <3>2, <3>6, AppendProperties, LenProperties DEF ToSet
    <3> QED
      BY <2>1, <3>5, <3>7 DEF FedIsInParts
  <2>3. ASSUME UNCHANGED updates PROVE FedIsInParts'
    BY <2>1, <2>3 DEF FedIsInParts
  <2>4. ASSUME NEW w \in Worker, Step(w) \/ Crash(w) \/ Restart(w), ~FeedUpdate(w)
        PROVE  UNCHANGED updates
    BY <2>4 DEF Step, Receive, IdlePoll, StopAtMaxPages, ReadPage, ReadMissing,
                PutDocuments, PutDiscarded, PutManifest, AckCurrent, Crash,
                Restart, services
  <2>5. ASSUME NEW p \in Page, Announce(p) PROVE UNCHANGED updates
    BY <2>5 DEF Announce
  <2>6. ASSUME UNCHANGED vars PROVE UNCHANGED updates
    BY <2>6 DEF vars, services
  <2> QED
    BY <2>2, <2>3, <2>4, <2>5, <2>6 DEF Next
<1> QED
  BY <1>1, <1>2, PartInvariant, PTL DEF Spec

-----------------------------------------------------------------------------
(***************************************************************************)
(* Nothing is written or fed twice, under any identities and crashes: a    *)
(* message is ahead of at most one worker, and the page of a message that  *)
(* is still to be read is nowhere yet.  A page that was read is in one     *)
(* buffer, which goes to one part when its worker begins to feed it.       *)
(***************************************************************************)

\* The worker has received the message and will read its page.
Ahead(w, i) ==
    /\ i <= batch[w].last
    /\ i > batch[w].next \/ (i = batch[w].next /\ pc[w] = "read")

Unread(i) == i > jobs.cursor \/ \E w \in Worker : Ahead(w, i)

InDocuments(p) == \E w \in Worker : p \in ToSet(documents[w])

Taken(p) == InDocuments(p) \/ p \in PagesIn(parts) \/ p \in ToSet(updates)

\* Every page is announced once, is ahead of one worker at most, and is not
\* taken before it is read.
ReadInv ==
    /\ IsInjective(jobs.entries)
    /\ \A v, w \in Worker, i \in DOMAIN jobs.entries :
          Ahead(v, i) /\ Ahead(w, i) => v = w
    /\ \A p \in Page : Taken(p) => p \in ToSet(jobs.entries)
    /\ \A i \in DOMAIN jobs.entries : Unread(i) => ~Taken(jobs.entries[i])

\* No page is in two buffers, or twice in one; while a buffer is not being
\* fed nothing of it is in a part; and what is left to feed was not fed.
DocumentsInv ==
    /\ \A w \in Worker : IsInjective(documents[w])
    /\ \A v, w \in Worker :
          v # w => ToSet(documents[v]) \cap ToSet(documents[w]) = {}
    /\ \A w \in Worker :
          pc[w] # "feed" => ToSet(documents[w]) \cap PagesIn(parts) = {}
    /\ \A w \in Worker : \A j \in DOMAIN documents[w] :
          j > fed[w] => documents[w][j] \notin ToSet(updates)

OnceInv == Typed /\ ReadInv /\ DocumentsInv /\ NothingTwice

\* A page that is appended is there besides what was, and once.
LEMMA AppendOnce ==
    ASSUME NEW S, NEW s \in Seq(S), NEW e \in S
    PROVE  /\ ToSet(Append(s, e)) = ToSet(s) \cup {e}
           /\ IsInjective(s) /\ e \notin ToSet(s) => IsInjective(Append(s, e))
<1>1. /\ Append(s, e) \in Seq(S) /\ Len(Append(s, e)) = Len(s) + 1
      /\ \A i \in 1 .. Len(s) : Append(s, e)[i] = s[i]
      /\ Append(s, e)[Len(s) + 1] = e
      /\ Len(s) \in Nat
  BY AppendProperties, LenProperties
<1>2. DOMAIN s = 1 .. Len(s) /\ DOMAIN Append(s, e) = 1 .. (Len(s) + 1)
  BY <1>1, LenProperties
<1>3. ToSet(Append(s, e)) \subseteq ToSet(s) \cup {e}
  BY <1>1, <1>2 DEF ToSet
<1>4. ToSet(s) \cup {e} \subseteq ToSet(Append(s, e))
  BY <1>1, <1>2 DEF ToSet
<1>5. ASSUME IsInjective(s), e \notin ToSet(s) PROVE IsInjective(Append(s, e))
  <2> SUFFICES ASSUME NEW i \in 1 .. (Len(s) + 1), NEW j \in 1 .. (Len(s) + 1),
                      Append(s, e)[i] = Append(s, e)[j]
               PROVE  i = j
    BY <1>2 DEF IsInjective
  <2>1. \A k \in 1 .. Len(s) : s[k] # e
    BY <1>2, <1>5 DEF ToSet
  <2> QED
    BY <1>1, <1>2, <1>5, <2>1 DEF IsInjective
<1> QED
  BY <1>3, <1>4, <1>5

LEMMA EmptyOnce == ToSet(<<>>) = {} /\ IsInjective(<<>>)
BY DEF ToSet, IsInjective

\* Only new messages come ahead of a worker.
LEMMA AheadStep ==
    ASSUME Typed, NEW w \in Worker, Step(w) \/ Crash(w) \/ Restart(w)
    PROVE  /\ jobs'.entries = jobs.entries
           /\ \/ /\ jobs'.cursor = jobs.cursor
                 /\ \A i \in Nat : Ahead(w, i)' => Ahead(w, i)
              \/ \A i \in Nat : Ahead(w, i)' => i > jobs.cursor
<1> USE DEF Ahead
<1>a. TypeOK /\ BatchOk(w) /\ jobs \in StreamOf(Page)
      /\ batch[w].next \in Nat /\ batch[w].last \in Nat
  BY DEF Typed, TypeOK, BatchInv
<1>1. CASE Receive(w)
  <2>1. jobs'.entries = jobs.entries
    BY <1>1, <1>a DEF Receive, Consume, StreamOf
  <2>2. /\ pc[w] = "poll"
        /\ batch'[w] = [next |-> jobs.cursor + 1,
                        last |-> LastDelivered(jobs, BatchSize)]
    BY <1>1, <1>a DEF Receive, TypeOK
  <2>3. jobs.cursor \in Nat
    BY <1>a DEF StreamOf
  <2> QED
    BY <1>1, <2>1, <2>2, <2>3
<1>2. CASE IdlePoll(w)
  <2>1. PICK step \in {"poll", "parts", "refused", "stopped"} :
            pc' = [pc EXCEPT ![w] = step]
    BY <1>2, FlushStepType DEF IdlePoll, LastFlush, Goto
  <2>2. pc'[w] # "read" /\ pc[w] = "poll" /\ UNCHANGED <<jobs, batch>>
    BY <1>2, <1>a, <2>1 DEF IdlePoll, TypeOK, services
  <2> QED
    BY <1>2, <2>2
<1>3. CASE StopAtMaxPages(w) \/ Crash(w)
  <2>1. batch' = [batch EXCEPT ![w] = EmptyBatch] /\ UNCHANGED jobs
    BY <1>3 DEF StopAtMaxPages, Crash, services
  <2>2. batch'[w] = [next |-> 1, last |-> 0]
    BY <1>a, <2>1 DEF TypeOK, EmptyBatch
  <2> QED
    BY <2>1, <2>2
<1>4. CASE ReadPage(w)
  BY <1>4, <1>a DEF ReadPage, TypeOK, services
<1>5. CASE ReadMissing(w) \/ PutDocuments(w) \/ PutDiscarded(w)
           \/ PutManifest(w) \/ Restart(w)
  <2>1. PICK step \in {"ack", "feed", "manifest", "stopped", "poll"} :
            pc' = [pc EXCEPT ![w] = step]
    BY <1>5 DEF ReadMissing, PutDocuments, PutDiscarded, PutManifest, Restart, Goto
  <2>2. pc'[w] # "read"
    BY <1>a, <2>1 DEF TypeOK
  <2>3. UNCHANGED <<jobs, batch>>
    BY <1>5 DEF ReadMissing, PutDocuments, PutDiscarded, PutManifest, Restart,
                services, loop
  <2> QED
    BY <2>2, <2>3
<1>6. CASE FeedUpdate(w)
  <2>1. FlushStep(<<>>, discarded[w], "manifest") \in {"refused", "manifest"}
    BY FlushStepType
  <2>2. pc[w] = "feed" /\ pc'[w] \in {"feed", "refused", "manifest"}
    BY <1>6, <1>a, <2>1 DEF FeedUpdate, Goto, TypeOK
  <2>3. UNCHANGED <<jobs, batch>>
    BY <1>6 DEF FeedUpdate, loop
  <2> QED
    BY <2>2, <2>3
<1>7. CASE AckCurrent(w)
  <2>1. /\ jobs'.entries = jobs.entries /\ jobs'.cursor = jobs.cursor
        /\ batch'[w].next = batch[w].next + 1 /\ batch'[w].last = batch[w].last
        /\ pc[w] = "ack"
    BY <1>7, <1>a DEF AckCurrent, Ack, TypeOK, StreamOf
  <2> QED
    BY <1>a, <2>1
<1> QED
  BY <1>1, <1>2, <1>3, <1>4, <1>5, <1>6, <1>7 DEF Step

\* A message that was read stays read, and two workers never come to have the
\* same one ahead of them.
LEMMA UnreadStep ==
    ASSUME Typed, ReadInv, NEW w \in Worker, Step(w) \/ Crash(w) \/ Restart(w)
    PROVE  /\ jobs'.entries = jobs.entries
           /\ \A i \in DOMAIN jobs.entries : Unread(i)' => Unread(i)
           /\ \A u, v \in Worker, i \in DOMAIN jobs.entries :
                 Ahead(u, i)' /\ Ahead(v, i)' => u = v
<1>1. DOMAIN jobs.entries \subseteq Nat
  BY LenProperties DEF Typed, TypeOK, StreamOf
<1>2. \A v \in Worker \ {w}, i \in Nat : Ahead(v, i)' <=> Ahead(v, i)
  BY Frame DEF Ahead, Typed
<1>3. jobs.cursor \in Nat /\ jobs'.cursor \in Nat /\ jobs.cursor <= jobs'.cursor
  BY OwnStep DEF Typed, TypeOK, StreamOf
<1>4. \A v \in Worker, i \in Nat : Ahead(v, i) => i <= jobs.cursor
  <2>1. \A v \in Worker : batch[v].last <= jobs.cursor /\ batch[v].last \in Nat
    BY DEF Typed, BatchInv, BatchOk, TypeOK
  <2> QED
    BY <1>3, <2>1 DEF Ahead
<1>5. CASE /\ jobs'.cursor = jobs.cursor
           /\ \A i \in Nat : Ahead(w, i)' => Ahead(w, i)
  BY <1>1, <1>2, <1>5, AheadStep DEF Unread, ReadInv
<1>6. CASE \A i \in Nat : Ahead(w, i)' => i > jobs.cursor
  <2>1. \A i \in DOMAIN jobs.entries : Unread(i)' => Unread(i)
    BY <1>1, <1>2, <1>3, <1>6 DEF Unread
  <2>2. \A u, v \in Worker, i \in DOMAIN jobs.entries :
           Ahead(u, i)' /\ Ahead(v, i)' => u = v
    BY <1>1, <1>2, <1>3, <1>4, <1>6 DEF ReadInv
  <2> QED
    BY <2>1, <2>2, AheadStep
<1> QED
  BY <1>5, <1>6, AheadStep

\* The page a worker reads is read from then on.
LEMMA ReadOnce ==
    ASSUME Typed, ReadInv, NEW w \in Worker, ReadPage(w)
    PROVE  /\ Current(w) \in DOMAIN jobs.entries /\ PageOf(w) \in Page
           /\ ~Taken(PageOf(w)) /\ ~Unread(Current(w))'
<1>1. Current(w) \in 1 .. jobs.cursor /\ Current(w) \in DOMAIN jobs.entries
  BY LenProperties DEF ReadPage, Typed, TypeOK, BatchInv, BatchOk, StreamOf,
                       Current, InBatch
<1>2. Ahead(w, Current(w))
  BY <1>1 DEF ReadPage, Typed, TypeOK, BatchInv, BatchOk, InBatch, Ahead, Current
<1>3. ~Taken(PageOf(w)) /\ PageOf(w) \in Page
  BY <1>1, <1>2, PageType DEF ReadInv, Unread, PageOf, ReadPage
<1>4. ~Ahead(w, Current(w))'
  <2>1. PICK step \in {"ack", "parts", "refused"} : pc' = [pc EXCEPT ![w] = step]
    BY FlushStepType DEF ReadPage, Goto
  <2>2. pc'[w] # "read" /\ batch' = batch
    BY <2>1 DEF ReadPage, Typed, TypeOK
  <2> QED
    BY <1>1, <2>2 DEF Ahead, Current
<1>5. ASSUME NEW v \in Worker, v # w PROVE ~Ahead(v, Current(w))'
  <2>1. Ahead(v, Current(w))' <=> Ahead(v, Current(w))
    BY <1>5, Frame DEF Ahead, Typed, Step, Current, ReadPage
  <2> QED
    BY <1>1, <1>2, <1>5, <2>1 DEF ReadInv
<1>6. ~(Current(w) > jobs.cursor) /\ jobs' = jobs /\ Current(w)' = Current(w)
  BY <1>1 DEF ReadPage, services, Current, Typed, TypeOK, StreamOf
<1>7. \A v \in Worker : ~Ahead(v, Current(w))'
  BY <1>4, <1>5
<1> QED
  BY <1>1, <1>3, <1>6, <1>7 DEF Unread

\* What a step does with what was read: it is read into a buffer, put in a
\* part, fed, dropped with a worker that died, or left where it is.
LEMMA OnceStep ==
    ASSUME OnceInv, NEW w \in Worker, Step(w) \/ Crash(w) \/ Restart(w)
    PROVE  /\ DocumentsInv' /\ NothingTwice'
           /\ \A p \in Page : Taken(p)' => Taken(p) \/ (ReadPage(w) /\ p = PageOf(w))
<1> USE DEF Taken, InDocuments, DocumentsInv, NothingTwice
<1>a. /\ TypeOK /\ BufferOk(w) /\ DocumentsInv /\ NothingTwice
      /\ documents[w] \in Seq(Indexable) /\ updates \in Seq(Indexable)
      /\ fed[w] \in Nat /\ Len(documents[w]) \in Nat
      /\ DOMAIN documents[w] = 1 .. Len(documents[w])
  BY LenProperties DEF OnceInv, Typed, TypeOK, BufferInv
<1>b. \A v \in Worker \ {w} :
          documents'[v] = documents[v] /\ pc'[v] = pc[v] /\ fed'[v] = fed[v]
  BY Frame DEF OnceInv, Typed
<1>1. CASE ReadPage(w)
  <2>1. PageOf(w) \in Page /\ ~Taken(PageOf(w))
    BY <1>1, ReadOnce DEF OnceInv
  <2>2. UNCHANGED <<parts, updates, fed>> /\ pc[w] # "feed" /\ fed[w] = 0
    BY <1>1, <1>a DEF ReadPage, services, BufferOk
  <2>3. /\ ToSet(documents'[w]) \subseteq ToSet(documents[w]) \cup {PageOf(w)}
        /\ IsInjective(documents'[w])
    <3>1. CASE PageOf(w) \in Indexable
      <4>1. documents'[w] = Append(documents[w], PageOf(w))
        BY <1>1, <1>a, <3>1 DEF ReadPage, TypeOK
      <4>2. PageOf(w) \notin ToSet(documents[w])
        BY <2>1
      <4> QED
        BY <1>a, <3>1, <4>1, <4>2, AppendOnce
    <3>2. CASE PageOf(w) \notin Indexable
      BY <1>1, <1>a, <3>2 DEF ReadPage
    <3> QED
      BY <3>1, <3>2
  <2>4. ToSet(documents[w]) \cap (PagesIn(parts) \cup ToSet(updates)) = {}
    <3>1. \A j \in DOMAIN documents[w] : j > fed[w]
      BY <1>a, <2>2
    <3> QED
      BY <1>a, <2>2, <3>1 DEF ToSet
  <2>5. ToSet(documents'[w]) \cap (PagesIn(parts) \cup ToSet(updates)) = {}
    BY <2>1, <2>3, <2>4
  <2>6. \A v \in Worker \ {w} : ToSet(documents[v]) \cap ToSet(documents'[w]) = {}
    BY <1>a, <2>1, <2>3
  <2>7. \A j \in DOMAIN documents'[w] : documents'[w][j] \notin ToSet(updates)
    BY <2>5 DEF ToSet
  <2>8. DocumentsInv' /\ NothingTwice'
    BY <1>a, <1>b, <2>2, <2>3, <2>5, <2>6, <2>7
  <2> QED
    BY <1>1, <1>b, <2>2, <2>3, <2>8
<1>2. CASE PutDocuments(w)
  <2>1. /\ UNCHANGED <<documents, updates, fed>>
        /\ pc[w] = "parts" /\ pc'[w] = "feed"
    BY <1>2, <1>a DEF PutDocuments, buffers, Goto, TypeOK
  <2>2. parts' = PutObject(parts, PartKeyOf(w), documents[w])
    BY <1>2 DEF PutDocuments
  <2>3. /\ DOMAIN parts' = DOMAIN parts \cup {PartKeyOf(w)}
        /\ parts'[PartKeyOf(w)] = documents[w]
        /\ \A k \in DOMAIN parts \ {PartKeyOf(w)} : parts'[k] = parts[k]
    BY <2>2 DEF PutObject
  <2>4. PagesIn(parts') \subseteq PagesIn(parts) \cup ToSet(documents[w])
    BY <2>3 DEF PagesIn
  <2>5. ToSet(documents[w]) \cap PagesIn(parts) = {}
    BY <1>a, <2>1
  <2>6. \A k \in DOMAIN parts : ToSet(documents[w]) \cap ToSet(parts[k]) = {}
    BY <2>5 DEF PagesIn
  <2>7. NothingTwice'
    BY <1>a, <2>1, <2>3, <2>6
  <2>8. DocumentsInv'
    BY <1>a, <1>b, <2>1, <2>4
  <2> QED
    BY <2>1, <2>4, <2>7, <2>8
<1>3. CASE FeedUpdate(w)
  <2> DEFINE page == documents[w][fed[w] + 1]
  <2>1. /\ pc[w] = "feed" /\ updates' = Append(updates, page) /\ UNCHANGED parts
        /\ fed[w] + 1 \in DOMAIN documents[w]
    BY <1>3, <1>a DEF FeedUpdate, BufferOk
  <2>2. page \in Indexable /\ page \in ToSet(documents[w])
    BY <1>a, <2>1, ElementOfSeq DEF ToSet
  <2>3. page \notin ToSet(updates)
    BY <1>a, <2>1
  <2>4. ToSet(updates') = ToSet(updates) \cup {page} /\ IsInjective(updates')
    BY <1>a, <2>1, <2>2, <2>3, AppendOnce
  <2>5. \/ documents' = documents /\ fed'[w] = fed[w] + 1 /\ pc' = pc
        \/ documents'[w] = <<>>
    BY <1>3, <1>a DEF FeedUpdate, TypeOK
  <2>6. \A j \in DOMAIN documents[w] : j > fed[w] + 1 => documents[w][j] # page
    BY <1>a, <2>1 DEF IsInjective
  <2> HIDE DEF page
  <2>7. /\ IsInjective(documents'[w])
        /\ ToSet(documents'[w]) \subseteq ToSet(documents[w])
        /\ pc'[w] # "feed" => ToSet(documents'[w]) = {}
    BY <1>a, <2>1, <2>5, EmptyOnce
  <2>8. \A j \in DOMAIN documents'[w] :
            j > fed'[w] => documents'[w][j] \notin ToSet(updates')
    <3>1. CASE documents' = documents /\ fed'[w] = fed[w] + 1
      <4> SUFFICES ASSUME NEW j \in DOMAIN documents[w], j > fed[w] + 1
                   PROVE  documents[w][j] \notin ToSet(updates')
        BY <3>1
      <4>1. j > fed[w]
        BY <1>a
      <4> QED
        BY <1>a, <2>4, <2>6, <4>1
    <3>2. CASE documents'[w] = <<>>
      BY <3>2
    <3> QED
      BY <2>5, <3>1, <3>2
  <2>9. \A v \in Worker \ {w} : page \notin ToSet(documents[v])
    BY <1>a, <2>2
  <2>10. \A v \in Worker \ {w} : \A j \in DOMAIN documents[v] :
            j > fed[v] => documents[v][j] \notin ToSet(updates')
    <3>1. \A v \in Worker : \A j \in DOMAIN documents[v] :
              documents[v][j] \in ToSet(documents[v])
      BY DEF ToSet
    <3> QED
      BY <1>a, <2>4, <2>9, <3>1
  <2>11. DocumentsInv' /\ NothingTwice'
    BY <1>a, <1>b, <2>1, <2>4, <2>7, <2>8, <2>10
  <2> QED
    BY <1>b, <2>1, <2>2, <2>4, <2>7, <2>11
<1>4. CASE Crash(w)
  <2>1. documents'[w] = <<>> /\ UNCHANGED <<parts, updates>>
    BY <1>4, <1>a DEF Crash, services, TypeOK
  <2>2. DOMAIN documents'[w] = {} /\ ToSet(documents'[w]) = {}
        /\ IsInjective(documents'[w])
    BY <2>1, EmptyOnce
  <2>3. DocumentsInv' /\ NothingTwice'
    BY <1>a, <1>b, <2>1, <2>2
  <2> QED
    BY <1>b, <2>1, <2>2, <2>3
<1>5. CASE ~ReadPage(w) /\ ~PutDocuments(w) /\ ~FeedUpdate(w) /\ ~Crash(w)
  <2>1. UNCHANGED <<parts, updates, documents, fed>> /\ pc[w] # "feed"
    BY <1>5 DEF Step, Receive, IdlePoll, StopAtMaxPages, ReadMissing, PutDiscarded,
                PutManifest, AckCurrent, Restart, services, buffers
  <2> QED
    BY <1>a, <1>b, <2>1
<1> QED
  BY <1>1, <1>2, <1>3, <1>4, <1>5

\* So what is still to be read stays so until it is.
LEMMA ReadInvStep ==
    ASSUME OnceInv, NEW w \in Worker, Step(w) \/ Crash(w) \/ Restart(w)
    PROVE  ReadInv'
<1>1. /\ jobs'.entries = jobs.entries
      /\ \A i \in DOMAIN jobs.entries : Unread(i)' => Unread(i)
      /\ \A u, v \in Worker, i \in DOMAIN jobs.entries :
            Ahead(u, i)' /\ Ahead(v, i)' => u = v
  BY UnreadStep DEF OnceInv
<1>2. /\ \A p \in Page : Taken(p)' => Taken(p) \/ (ReadPage(w) /\ p = PageOf(w))
      /\ \A i \in DOMAIN jobs.entries : jobs.entries[i] \in Page
  BY OnceStep, ElementOfSeq, LenProperties DEF OnceInv, Typed, TypeOK, StreamOf
<1>3. CASE ReadPage(w)
  <2>1. Current(w) \in DOMAIN jobs.entries /\ ~Unread(Current(w))'
    BY <1>3, ReadOnce DEF OnceInv
  <2>2. Current(w)' = Current(w)
    BY <1>3 DEF ReadPage, Current
  <2>3. PageOf(w) \in ToSet(jobs.entries)
    BY <2>1 DEF PageOf, ToSet
  <2>4. \A i \in DOMAIN jobs.entries :
            jobs.entries[i] = PageOf(w) => i = Current(w)
    BY <2>1 DEF OnceInv, ReadInv, IsInjective, PageOf
  <2>5. \A i \in DOMAIN jobs.entries : Unread(i)' => i # Current(w)
    BY <2>1, <2>2
  <2> QED
    BY <1>1, <1>2, <2>3, <2>4, <2>5 DEF OnceInv, ReadInv
<1>4. CASE ~ReadPage(w)
  BY <1>1, <1>2, <1>4 DEF OnceInv, ReadInv
<1> QED
  BY <1>3, <1>4

\* A page that is announced was not read before.
LEMMA OnceAnnounce ==
    ASSUME OnceInv, NEW p \in Page, Announce(p)
    PROVE  OnceInv'
<1>a. /\ Typed /\ jobs.entries \in Seq(Page) /\ jobs.cursor \in Nat
      /\ jobs.cursor <= Len(jobs.entries) /\ Len(jobs.entries) \in Nat
      /\ DOMAIN jobs.entries = 1 .. Len(jobs.entries)
  BY LenProperties DEF OnceInv, Typed, TypeOK, StreamOf, BatchInv
<1>1. /\ jobs'.entries = Append(jobs.entries, p) /\ jobs'.cursor = jobs.cursor
      /\ UNCHANGED <<parts, updates, pc, batch, documents, fed>>
  BY <1>a DEF Announce, Publish, Typed, TypeOK, StreamOf, loop, buffers
<1>2. Typed' /\ DocumentsInv' /\ NothingTwice'
  BY <1>a, <1>1, TypedAnnounce DEF OnceInv, DocumentsInv, NothingTwice, Typed
<1>3. p \notin ToSet(jobs.entries)
  BY DEF Announce, ToSet
<1>4. /\ ToSet(jobs'.entries) = ToSet(jobs.entries) \cup {p}
      /\ IsInjective(jobs'.entries)
  BY <1>a, <1>1, <1>3, AppendOnce DEF OnceInv, ReadInv
<1>5. /\ DOMAIN jobs'.entries = 1 .. (Len(jobs.entries) + 1)
      /\ \A i \in DOMAIN jobs.entries : jobs'.entries[i] = jobs.entries[i]
      /\ jobs'.entries[Len(jobs.entries) + 1] = p
  BY <1>a, <1>1, AppendProperties
<1>6. \A v \in Worker : batch[v].last \in Nat /\ batch[v].last <= jobs.cursor
  BY <1>a DEF Typed, TypeOK, BatchInv, BatchOk
<1>7. /\ \A v \in Worker, i \in Nat : Ahead(v, i)' <=> Ahead(v, i)
      /\ \A v \in Worker, i \in Nat : Ahead(v, i) => i <= Len(jobs.entries)
  BY <1>a, <1>1, <1>6 DEF Ahead
<1>8. /\ \A q \in Page : Taken(q)' <=> Taken(q)
      /\ ~Taken(p)
  BY <1>1, <1>3 DEF OnceInv, ReadInv, Taken, InDocuments
<1>9. \A i \in Nat : Unread(i)' <=> Unread(i)
  BY <1>1, <1>7 DEF Unread
<1>10. \A u, v \in Worker, i \in DOMAIN jobs'.entries :
          Ahead(u, i)' /\ Ahead(v, i)' => u = v
  BY <1>a, <1>5, <1>7 DEF OnceInv, ReadInv
<1>11. (\A i \in DOMAIN jobs.entries : Unread(i) => ~Taken(jobs.entries[i]))'
  <2>1. \A i \in DOMAIN jobs.entries : jobs.entries[i] \in Page
    BY <1>a, ElementOfSeq
  <2>2. ASSUME NEW i \in DOMAIN jobs'.entries, Unread(i)'
        PROVE  ~Taken(jobs.entries[i])'
    <3>1. CASE i \in DOMAIN jobs.entries
      BY <1>a, <1>1, <1>5, <1>9, <2>1, <2>2, <3>1
         DEF OnceInv, ReadInv, Taken, InDocuments
    <3>2. CASE i = Len(jobs.entries) + 1
      BY <1>1, <1>5, <1>8, <3>2 DEF Taken, InDocuments
    <3> QED
      BY <1>a, <1>5, <3>1, <3>2
  <2> QED
    BY <2>2
<1> QED
  BY <1>2, <1>4, <1>8, <1>10, <1>11 DEF OnceInv, ReadInv

\* Nothing is written or fed twice, however many workers there are, whatever
\* identities they have, and wherever they crash.
THEOREM ExtractsNothingTwice == Spec => []NothingTwice
<1>1. Init => OnceInv
  <2> SUFFICES ASSUME Init PROVE OnceInv
    OBVIOUS
  <2>1. /\ jobs.entries = <<>> /\ updates = <<>> /\ DOMAIN parts = {}
        /\ \A w \in Worker : documents[w] = <<>>
    BY DEF Init, EmptyStream, NoObjects
  <2>2. PagesIn(parts) = {}
    BY <2>1 DEF PagesIn
  <2>3. ReadInv
    BY <2>1, <2>2, EmptyOnce DEF ReadInv, Taken, InDocuments
  <2>4. DocumentsInv /\ NothingTwice
    BY <2>1, <2>2, EmptyOnce DEF DocumentsInv, NothingTwice
  <2> QED
    BY <2>3, <2>4, TypedInit DEF OnceInv
<1>2. OnceInv /\ [Next]_vars => OnceInv'
  <2> SUFFICES ASSUME OnceInv, [Next]_vars PROVE OnceInv'
    OBVIOUS
  <2>1. ASSUME NEW w \in Worker, Step(w) \/ Crash(w) \/ Restart(w) PROVE OnceInv'
    BY <2>1, TypedStep, OnceStep, ReadInvStep DEF OnceInv
  <2>2. ASSUME NEW p \in Page, Announce(p) PROVE OnceInv'
    BY <2>2, OnceAnnounce
  <2>3. ASSUME UNCHANGED vars PROVE OnceInv'
    <3>1. Typed'
      BY <2>3, TypedNext DEF OnceInv
    <3>2. UNCHANGED <<jobs, parts, updates, pc, batch, documents, fed>>
      BY <2>3 DEF vars, services, loop, buffers
    <3> QED
      BY <3>1, <3>2 DEF OnceInv, ReadInv, DocumentsInv, NothingTwice, Unread,
                        Ahead, Taken, InDocuments
  <2> QED
    BY <2>1, <2>2, <2>3 DEF Next
<1>3. OnceInv => NothingTwice
  BY DEF OnceInv
<1> QED
  BY <1>1, <1>2, <1>3, PTL DEF Spec
-----------------------------------------------------------------------------
(***************************************************************************)
(* What is confirmed is kept as long as nothing crashed.                   *)
(***************************************************************************)

Buffered(p) ==
    \E w \in Worker : p \in ToSet(documents[w]) \cup ToSet(discarded[w])

Kept(p) == p \in Stored \/ p \in missing \/ Buffered(p)

\* A message that was handed out is pending or its page is kept; a worker
\* that is past reading a page keeps it.
KeptInv ==
    /\ \A i \in 1 .. jobs.cursor :
          i \in jobs.pending \/ Kept(jobs.entries[i])
    /\ \A w \in Worker :
          pc[w] \in {"parts", "feed", "refused", "manifest", "ack"} /\ InBatch(w)
             => Kept(PageOf(w))

\* A worker that polls, or died, has nothing at hand; the buffers are empty
\* from where the flush has written them, and when the worker stopped.
FlushInv ==
    \A w \in Worker :
        /\ pc[w] \in {"poll", "crashed"} => ~InBatch(w)
        /\ pc[w] \in {"refused", "manifest", "stopped"} => documents[w] = <<>>
        /\ pc[w] \in {"manifest", "stopped"} => discarded[w] = <<>>

\* A flush goes past the buffers it finds empty, and to the first that is not.
LEMMA FlushStepFrom ==
    ASSUME NEW docs, NEW others, NEW nothing \in {"ack", "stopped", "manifest"}
    PROVE  /\ FlushStep(docs, others, nothing) \in {"parts", "refused", nothing}
           /\ FlushStep(docs, others, nothing) = "refused" => docs = <<>>
           /\ FlushStep(docs, others, nothing) = "stopped" =>
                 docs = <<>> /\ others = <<>>
           /\ FlushStep(docs, others, nothing) = "manifest" =>
                 docs = <<>> /\ others = <<>>
BY DEF FlushStep

\* What FlushInv says of one worker.
FlushOk(w) ==
    /\ pc[w] \in {"poll", "crashed"} => ~InBatch(w)
    /\ pc[w] \in {"refused", "manifest", "stopped"} => documents[w] = <<>>
    /\ pc[w] \in {"manifest", "stopped"} => discarded[w] = <<>>

LEMMA FlushInvStep ==
    ASSUME Typed, FlushInv, NEW w \in Worker, Step(w) \/ Crash(w) \/ Restart(w)
    PROVE  FlushInv'
<1>a. TypeOK /\ FlushOk(w) /\ batch[w].next \in Nat /\ batch[w].last \in Nat
  BY DEF FlushInv, FlushOk, Typed, TypeOK
<1>b. \A v \in Worker \ {w} : FlushOk(v)'
  BY Frame DEF FlushInv, FlushOk, InBatch, Typed
<1> SUFFICES FlushOk(w)'
  BY <1>b DEF FlushInv, FlushOk
<1> USE DEF FlushOk
<1>1. CASE Receive(w)
  BY <1>1, <1>a DEF Receive, Goto, TypeOK
<1>2. CASE IdlePoll(w)
  <2>1. /\ pc[w] = "poll" /\ UNCHANGED <<batch, documents, discarded>>
        /\ \/ pc' = [pc EXCEPT ![w] = "poll"]
           \/ pc' = [pc EXCEPT ![w] = FlushStep(documents[w], discarded[w], "stopped")]
    BY <1>2 DEF IdlePoll, LastFlush, Goto, buffers
  <2> QED
    BY <1>a, <2>1, FlushStepFrom DEF TypeOK, InBatch
<1>3. CASE StopAtMaxPages(w)
  <2>1. /\ UNCHANGED <<documents, discarded>>
        /\ pc' = [pc EXCEPT ![w] = FlushStep(documents[w], discarded[w], "stopped")]
    BY <1>3 DEF StopAtMaxPages, LastFlush, Goto, buffers
  <2> QED
    BY <1>a, <2>1, FlushStepFrom DEF TypeOK
<1>4. CASE ReadPage(w)
  <2>1. \/ pc' = [pc EXCEPT ![w] = FlushStep(documents'[w], discarded'[w], "ack")]
        \/ pc' = [pc EXCEPT ![w] = "ack"]
    BY <1>4 DEF ReadPage, Goto
  <2> QED
    BY <1>a, <2>1 DEF FlushStep, TypeOK
<1>5. CASE ReadMissing(w) \/ PutDocuments(w)
  BY <1>5, <1>a DEF ReadMissing, PutDocuments, Goto, TypeOK
<1>6. CASE FeedUpdate(w)
  <2>1. /\ pc[w] = "feed" /\ UNCHANGED discarded
        /\ \/ UNCHANGED pc
           \/ /\ documents'[w] = <<>>
              /\ pc'[w] = FlushStep(<<>>, discarded[w], "manifest")
    BY <1>6, <1>a DEF FeedUpdate, Goto, TypeOK
  <2> QED
    BY <1>a, <2>1, FlushStepFrom
<1>7. CASE PutDiscarded(w)
  BY <1>7, <1>a DEF PutDiscarded, Goto, TypeOK
<1>8. CASE PutManifest(w)
  BY <1>8, <1>a DEF PutManifest, Goto, TypeOK
<1>9. CASE AckCurrent(w)
  <2>1. /\ UNCHANGED <<documents, discarded>> /\ pc[w] = "ack"
        /\ batch'[w].next = batch[w].next + 1 /\ batch'[w].last = batch[w].last
        /\ pc'[w] = IF batch[w].next = batch[w].last THEN "poll" ELSE "read"
    BY <1>9, <1>a DEF AckCurrent, Current, Goto, TypeOK, buffers
  <2> QED
    BY <1>a, <2>1 DEF InBatch
<1>10. CASE Crash(w)
  BY <1>10, <1>a DEF Crash, Goto, TypeOK, EmptyBatch, InBatch
<1>11. CASE Restart(w)
  BY <1>11, <1>a DEF Restart, Goto, TypeOK, InBatch, loop
<1> QED
  BY <1>1, <1>2, <1>3, <1>4, <1>5, <1>6, <1>7, <1>8, <1>9, <1>10, <1>11 DEF Step

\* What is kept stays kept: a buffer is cleared when what it has is in a part.
LEMMA KeptStays ==
    ASSUME Inv, Distinct, NEW w \in Worker, Step(w), NEW p, Kept(p)
    PROVE  Kept(p)'
<1> USE DEF Kept, Stored
<1>a. /\ TypeOK /\ FeedInv(w)
      /\ documents[w] \in Seq(Indexable)
      /\ discarded[w] \in Seq(Page \ Indexable)
  BY DEF Inv, Typed, TypeOK, PartInv
<1>b. /\ PagesIn(parts) \subseteq PagesIn(parts')
      /\ PagesIn(refused) \subseteq PagesIn(refused')
  BY StepAdds DEF AddsOnly, PagesIn
<1>c. missing \subseteq missing'
  BY DEF Step, Receive, IdlePoll, StopAtMaxPages, ReadPage, ReadMissing,
         PutDocuments, FeedUpdate, PutDiscarded, PutManifest, AckCurrent, history
<1>1. \/ ToSet(documents[w]) \subseteq ToSet(documents'[w])
      \/ ToSet(documents[w]) \subseteq PagesIn(parts')
  <2>1. CASE ReadPage(w)
    <3>1. CASE PageOf(w) \in Indexable
      <4>1. documents'[w] = Append(documents[w], PageOf(w))
        BY <2>1, <1>a, <3>1 DEF ReadPage, TypeOK
      <4> QED
        BY <1>a, <3>1, <4>1, AppendOnce
    <3>2. CASE PageOf(w) \notin Indexable
      BY <2>1, <3>2 DEF ReadPage
    <3> QED
      BY <3>1, <3>2
  <2>2. CASE FeedUpdate(w)
    <3>1. ToSet(documents[w]) \subseteq PagesIn(parts)
      BY <2>2, <1>a DEF FeedUpdate, FeedInv, PagesIn
    <3> QED
      BY <1>b, <3>1
  <2>3. CASE ~ReadPage(w) /\ ~FeedUpdate(w)
    BY <2>3 DEF Step, Receive, IdlePoll, StopAtMaxPages, ReadMissing,
                PutDocuments, PutDiscarded, PutManifest, AckCurrent, buffers
  <2> QED
    BY <2>1, <2>2, <2>3
<1>2. \/ ToSet(discarded[w]) \subseteq ToSet(discarded'[w])
      \/ ToSet(discarded[w]) \subseteq PagesIn(refused')
  <2>1. CASE ReadPage(w)
    <3>1. CASE PageOf(w) \notin Indexable
      <4>1. discarded'[w] = Append(discarded[w], PageOf(w))
        BY <2>1, <1>a, <3>1 DEF ReadPage, TypeOK
      <4>2. PageOf(w) \in Page
        BY <2>1, PageType DEF Inv, ReadPage
      <4> QED
        BY <1>a, <3>1, <4>1, <4>2, AppendOnce
    <3>2. CASE PageOf(w) \in Indexable
      BY <2>1, <3>2 DEF ReadPage
    <3> QED
      BY <3>1, <3>2
  <2>2. CASE PutDiscarded(w)
    <3>1. refused' = PutObject(refused, PartKeyOf(w), discarded[w])
      BY <2>2 DEF PutDiscarded
    <3> QED
      BY <3>1 DEF PutObject, PagesIn
  <2>3. CASE ~ReadPage(w) /\ ~PutDiscarded(w)
    BY <2>3 DEF Step, Receive, IdlePoll, StopAtMaxPages, ReadMissing,
                PutDocuments, FeedUpdate, PutManifest, AckCurrent, buffers
  <2> QED
    BY <2>1, <2>2, <2>3
<1>3. \A v \in Worker \ {w} :
          documents'[v] = documents[v] /\ discarded'[v] = discarded[v]
  BY Frame DEF Inv, Typed
<1> QED
  BY <1>b, <1>c, <1>1, <1>2, <1>3 DEF Buffered

\* The page a worker reads is kept from then on.
LEMMA ReadIsKept ==
    ASSUME Inv, NEW w \in Worker, ReadPage(w) \/ ReadMissing(w)
    PROVE  Kept(PageOf(w))'
<1>a. /\ TypeOK /\ PageOf(w) \in Page
      /\ documents[w] \in Seq(Indexable)
      /\ discarded[w] \in Seq(Page \ Indexable)
  BY PageType DEF ReadPage, ReadMissing, Inv, Typed, TypeOK
<1>b. PageOf(w)' = PageOf(w)
  BY DEF ReadPage, ReadMissing, PageOf, Current, services, loop
<1>1. CASE ReadMissing(w)
  BY <1>1, <1>b DEF ReadMissing, Kept
<1>2. CASE ReadPage(w) /\ PageOf(w) \in Indexable
  <2>1. documents'[w] = Append(documents[w], PageOf(w))
    BY <1>2, <1>a DEF ReadPage, TypeOK
  <2>2. PageOf(w) \in ToSet(documents'[w])
    BY <1>2, <1>a, <2>1, AppendOnce
  <2> QED
    BY <1>b, <2>2 DEF Kept, Buffered
<1>3. CASE ReadPage(w) /\ PageOf(w) \notin Indexable
  <2>1. discarded'[w] = Append(discarded[w], PageOf(w))
    BY <1>3, <1>a DEF ReadPage, TypeOK
  <2>2. PageOf(w) \in ToSet(discarded'[w])
    BY <1>3, <1>a, <2>1, AppendOnce
  <2> QED
    BY <1>b, <2>2 DEF Kept, Buffered
<1> QED
  BY <1>1, <1>2, <1>3

LEMMA KeptInvStep ==
    ASSUME Inv, Distinct, FlushInv, KeptInv, NEW w \in Worker, Step(w)
    PROVE  KeptInv'
<1> DEFINE Past == {"parts", "feed", "refused", "manifest", "ack"}
<1>a. /\ TypeOK /\ FlushOk(w) /\ BatchOk(w) /\ jobs \in StreamOf(Page)
      /\ batch[w].next \in Nat /\ batch[w].last \in Nat /\ jobs.cursor \in Nat
  BY DEF Inv, FlushInv, FlushOk, Typed, TypeOK, BatchInv, StreamOf
<1>b. \A p : Kept(p) => Kept(p)'
  BY KeptStays
<1>c. jobs'.entries = jobs.entries
  BY AheadStep DEF Inv
<1>1. \A i \in 1 .. jobs'.cursor : i \in jobs'.pending \/ Kept(jobs.entries[i])'
  <2>1. CASE Receive(w)
    <3>1. /\ jobs'.cursor = LastDelivered(jobs, BatchSize)
          /\ jobs'.pending = jobs.pending \cup
                ((jobs.cursor + 1) .. LastDelivered(jobs, BatchSize))
          /\ LastDelivered(jobs, BatchSize) \in Nat
      BY <2>1, <1>a, ConsumeType, ExtractAssumption DEF Receive, Consume, StreamOf
    <3> QED
      BY <1>a, <1>b, <1>c, <3>1 DEF KeptInv
  <2>2. CASE AckCurrent(w)
    <3>1. /\ jobs'.cursor = jobs.cursor /\ jobs'.pending = jobs.pending \ {Current(w)}
          /\ Kept(PageOf(w))
      BY <2>2, <1>a DEF AckCurrent, Ack, StreamOf, KeptInv, BatchOk
    <3> QED
      BY <1>b, <1>c, <3>1 DEF KeptInv, PageOf
  <2>3. CASE ~Receive(w) /\ ~AckCurrent(w)
    <3>1. UNCHANGED jobs
      BY <2>3 DEF Step, IdlePoll, StopAtMaxPages, ReadPage, ReadMissing, PutDocuments,
                  FeedUpdate, PutDiscarded, PutManifest, services
    <3> QED
      BY <1>b, <3>1 DEF KeptInv
  <2> QED
    BY <2>1, <2>2, <2>3
<1>2. pc'[w] \in Past /\ InBatch(w)' => Kept(PageOf(w))'
  <2>1. CASE Receive(w) \/ AckCurrent(w)
    BY <2>1, <1>a DEF Receive, AckCurrent, Goto, TypeOK
  <2>2. CASE IdlePoll(w)
    BY <2>2, <1>a DEF IdlePoll, FlushOk, InBatch
  <2>3. CASE StopAtMaxPages(w)
    BY <2>3, <1>a DEF StopAtMaxPages, TypeOK, EmptyBatch, InBatch
  <2>4. CASE ReadPage(w) \/ ReadMissing(w)
    BY <2>4, ReadIsKept
  <2>5. CASE PutDocuments(w) \/ FeedUpdate(w) \/ PutDiscarded(w) \/ PutManifest(w)
    <3>1. pc[w] \in Past /\ UNCHANGED <<jobs, batch>>
      BY <2>5 DEF PutDocuments, FeedUpdate, PutDiscarded, PutManifest, loop
    <3> QED
      BY <1>b, <3>1 DEF KeptInv, InBatch, PageOf, Current
  <2> QED
    BY <2>1, <2>2, <2>3, <2>4, <2>5 DEF Step
<1>3. ASSUME NEW v \in Worker, v # w, pc'[v] \in Past, InBatch(v)'
      PROVE  Kept(PageOf(v))'
  <2>1. pc'[v] = pc[v] /\ batch'[v] = batch[v]
    BY <1>3, Frame DEF Inv, Typed
  <2>2. Kept(PageOf(v))
    BY <1>3, <2>1 DEF KeptInv, InBatch
  <2>3. PageOf(v)' = PageOf(v)
    BY <1>c, <2>1 DEF PageOf, Current
  <2> QED
    BY <1>b, <2>2, <2>3
<1> QED
  BY <1>c, <1>1, <1>2, <1>3 DEF KeptInv

\* Unless something crashed, the page of a message that is confirmed is in a
\* part, on the list of the discarded, in the buffer of a worker that has not
\* stopped, or was not in storage, whatever the limits that end a worker and
\* wherever in a batch they do.
THEOREM ConfirmedPagesAreKept == Spec => []ConfirmedIsKept
<1>1. Init => FlushInv /\ KeptInv
  BY DEF Init, FlushInv, KeptInv, InBatch, EmptyBatch, EmptyStream
<1>2. Inv /\ FlushInv /\ (crashes = 0 => KeptInv) /\ [Next]_vars
        => FlushInv' /\ (crashes = 0 => KeptInv)'
  <2> SUFFICES ASSUME Inv, FlushInv, crashes = 0 => KeptInv, [Next]_vars
               PROVE  FlushInv' /\ (crashes' = 0 => KeptInv')
    OBVIOUS
  <2>1. ASSUME NEW w \in Worker, Step(w) PROVE FlushInv' /\ (crashes' = 0 => KeptInv')
    <3>1. crashes' = crashes
      BY <2>1 DEF Step, Receive, IdlePoll, StopAtMaxPages, ReadPage, ReadMissing,
                  PutDocuments, FeedUpdate, PutDiscarded, PutManifest, AckCurrent,
                  history
    <3> QED
      BY <2>1, <3>1, FlushInvStep, KeptInvStep DEF Inv, Distinct
  <2>2. ASSUME NEW w \in Worker, Crash(w) PROVE FlushInv' /\ (crashes' = 0 => KeptInv')
    <3>1. crashes \in Nat /\ crashes' = crashes + 1
      BY <2>2 DEF Inv, Crash, Typed, TypeOK
    <3> QED
      BY <2>2, <3>1, FlushInvStep DEF Inv
  <2>3. ASSUME NEW w \in Worker, Restart(w) PROVE FlushInv' /\ (crashes' = 0 => KeptInv')
    BY <2>3, FlushInvStep DEF Inv, CrashInv, Restart
  <2>4. ASSUME UNCHANGED <<parts, refused, pc, batch, documents, discarded, missing,
                           crashes>>,
               UNCHANGED <<jobs.cursor, jobs.pending>>,
               \A i \in DOMAIN jobs.entries : jobs'.entries[i] = jobs.entries[i]
        PROVE  FlushInv' /\ (crashes' = 0 => KeptInv')
    <3>1. FlushInv'
      BY <2>4 DEF FlushInv, InBatch
    <3>2. \A p : Kept(p)' <=> Kept(p)
      BY <2>4 DEF Kept, Stored, Buffered
    <3>3. /\ 1 .. jobs.cursor \subseteq DOMAIN jobs.entries
          /\ \A w \in Worker : InBatch(w) => Current(w) \in DOMAIN jobs.entries
      BY LenProperties DEF Inv, Typed, TypeOK, BatchInv, BatchOk, StreamOf, InBatch,
                           Current
    <3> QED
      BY <2>4, <3>1, <3>2, <3>3 DEF KeptInv, InBatch, PageOf, Current
  <2>5. ASSUME NEW p \in Page, Announce(p) PROVE FlushInv' /\ (crashes' = 0 => KeptInv')
    <3>1. jobs \in StreamOf(Page) /\ jobs' = Publish(jobs, p)
      BY <2>5 DEF Announce, Inv, Typed, TypeOK
    <3>2. \A i \in DOMAIN jobs.entries : jobs'.entries[i] = jobs.entries[i]
      BY <3>1, AppendProperties, LenProperties DEF Publish, StreamOf
    <3>3. UNCHANGED <<jobs.cursor, jobs.pending>>
      BY <3>1 DEF Publish, StreamOf
    <3> QED
      BY <2>4, <2>5, <3>2, <3>3 DEF Announce, loop, buffers, history
  <2>6. ASSUME UNCHANGED vars PROVE FlushInv' /\ (crashes' = 0 => KeptInv')
    BY <2>4, <2>6 DEF vars, services, loop, buffers, history
  <2> QED
    BY <2>1, <2>2, <2>3, <2>5, <2>6 DEF Next
<1>3. Inv /\ FlushInv /\ (crashes = 0 => KeptInv) => ConfirmedIsKept
  <2> SUFFICES ASSUME FlushInv, KeptInv, NEW i \in Acked(jobs)
               PROVE  \/ jobs.entries[i] \in Stored \cup missing
                      \/ \E w \in Worker :
                            /\ pc[w] # "stopped"
                            /\ jobs.entries[i] \in
                                  ToSet(documents[w]) \cup ToSet(discarded[w])
    BY DEF ConfirmedIsKept
  <2>1. Kept(jobs.entries[i])
    BY DEF Acked, KeptInv
  <2>2. \A w \in Worker :
            pc[w] = "stopped" => ToSet(documents[w]) = {} /\ ToSet(discarded[w]) = {}
    BY EmptyOnce DEF FlushInv
  <2> QED
    BY <2>1, <2>2 DEF Kept, Buffered
<1> QED
  BY <1>1, <1>2, <1>3, PartInvariant, PTL DEF Spec

-----------------------------------------------------------------------------
(***************************************************************************)
(* The manifest is exact.  Replacements must have an identity of their own *)
(* again: with the one it had, a worker begins to count anew over the      *)
(* parts that are there.                                                   *)
(***************************************************************************)
\* No fragment is of a worker that does not exist yet.
FragmentsInv ==
    \A o \in DOMAIN manifests, w \in Worker : o[1] = w => o[2] <= runs[w]

\* A worker counts what it has written, and no part file is left out of the
\* fragment from one flush to the next.
CountedOk(w, id) ==
    /\ IsFiniteSet(LinesOf(parts, id)) /\ IsFiniteSet(LinesOf(refused, id))
    /\ Cardinality(LinesOf(parts, id)) =
          written[w].documents + (IF pc[w] = "feed" THEN Len(documents[w]) ELSE 0)
    /\ Cardinality(LinesOf(refused, id)) = written[w].discarded
    /\ pc[w] = "manifest" => PartKeyOf(w) \in DOMAIN parts \cup DOMAIN refused
    /\ pc[w] \in {"poll", "read", "ack", "stopped", "parts"} =>
          IF FilesOf(parts, id) \cup FilesOf(refused, id) = {}
          THEN id \notin DOMAIN manifests
          ELSE /\ id \in DOMAIN manifests
               /\ manifests[id].count = written[w] /\ manifests[id].files = partSeq[w]

FragmentOk(w) == IF pc[w] = "crashed" THEN written[w] = NothingYet
                 ELSE CountedOk(w, WorkerId(w))

FragmentInv == FragmentsInv /\ \A w \in Worker : FragmentOk(w)

\* A new part file adds its lines to those of its owner.
LEMMA LinesAdded ==
    ASSUME NEW files, NEW k, k \notin DOMAIN files, NEW body, NEW n \in Nat,
           DOMAIN body = 1 .. n, NEW owner,
           IsFiniteSet(LinesOf(files, owner)),
           NEW new, new = PutObject(files, k, body)
    PROVE  /\ k.owner = owner =>
                 /\ FilesOf(new, owner) = FilesOf(files, owner) \cup {k}
                 /\ IsFiniteSet(LinesOf(new, owner))
                 /\ Cardinality(LinesOf(new, owner)) = Cardinality(LinesOf(files, owner)) + n
           /\ k.owner # owner =>
                 /\ FilesOf(new, owner) = FilesOf(files, owner)
                 /\ LinesOf(new, owner) = LinesOf(files, owner)
<1>1. /\ DOMAIN new = DOMAIN files \cup {k} /\ new[k] = body
      /\ \A l \in DOMAIN files : new[l] = files[l]
  BY DEF PutObject
<1>2. FilesOf(new, owner) = FilesOf(files, owner) \cup (IF k.owner = owner THEN {k} ELSE {})
  BY <1>1 DEF FilesOf
<1>3. ASSUME k.owner # owner PROVE LinesOf(new, owner) = LinesOf(files, owner)
  <2>1. FilesOf(new, owner) = FilesOf(files, owner)
    BY <1>2, <1>3
  <2>2. \A l \in FilesOf(files, owner) : new[l] = files[l]
    BY <1>1 DEF FilesOf
  <2> QED
    BY <2>1, <2>2 DEF LinesOf
<1>4. ASSUME k.owner = owner
      PROVE  /\ IsFiniteSet(LinesOf(new, owner))
             /\ Cardinality(LinesOf(new, owner)) = Cardinality(LinesOf(files, owner)) + n
  <2> DEFINE old   == LinesOf(files, owner)
             added == {k} \X (1 .. n)
  <2>1. FilesOf(new, owner) = FilesOf(files, owner) \cup {k}
    BY <1>2, <1>4
  <2>2. \A l \in FilesOf(files, owner) : new[l] = files[l]
    BY <1>1 DEF FilesOf
  <2>3. LinesOf(new, owner) = old \cup added
    BY <1>1, <2>1, <2>2 DEF LinesOf
  <2>4. old \cap added = {}
    BY DEF LinesOf, FilesOf
  <2>5. IsFiniteSet(1 .. n) /\ Cardinality(1 .. n) = n
    <3>1. IsFiniteSet(1 .. n) /\ Cardinality(1 .. n) = IF 1 > n THEN 0 ELSE n - 1 + 1
      BY FS_Interval, 1 \in Int, n \in Int
    <3>2. (IF 1 > n THEN 0 ELSE n - 1 + 1) = n
      OBVIOUS
    <3> QED
      BY <3>1, <3>2
  <2>6. IsFiniteSet({k}) /\ Cardinality({k}) = 1
    BY FS_Singleton
  <2>7. IsFiniteSet(added) /\ Cardinality(added) = 1 * n
    <3>1. /\ IsFiniteSet({k} \X (1 .. n))
          /\ Cardinality({k} \X (1 .. n)) = Cardinality({k}) * Cardinality(1 .. n)
      BY <2>5, <2>6, FS_Product
    <3> QED
      BY <2>5, <2>6, <3>1
  <2>8. IsFiniteSet(old) /\ Cardinality(old) \in Nat
    BY FS_CardinalityType
  <2>9. Cardinality(old \cap added) = 0
    BY <2>4, FS_EmptySet
  <2>10. IsFiniteSet(old \cup added)
         /\ Cardinality(old \cup added)
              = Cardinality(old) + Cardinality(added) - Cardinality(old \cap added)
    BY <2>7, <2>8, FS_Union
  <2> HIDE DEF old, added
  <2>11. Cardinality(old \cup added) = Cardinality(old) + n
    BY <2>7, <2>8, <2>9, <2>10
  <2> QED
    BY <2>3, <2>10, <2>11 DEF old
<1> QED
  BY <1>2, <1>3, <1>4

\* The identity of a worker, and of none of the others.
LEMMA OwnIds ==
    ASSUME Inv, Inv', Distinct, Distinct', NEW w \in Worker
    PROVE  /\ WorkerId(w) = <<w, runs[w]>> /\ WorkerId(w)' = <<w, runs'[w]>>
           /\ PartKeyOf(w).owner = WorkerId(w) /\ PartKeyOf(w).seq = partSeq[w]
BY DEF Inv, Distinct, CrashInv, WorkerId, PartKeyOf

\* What a step does to the totals and the fragments of the others.
LEMMA OthersFragments ==
    ASSUME Inv, Inv', Distinct, Distinct', NEW w \in Worker, Step(w) \/ Crash(w) \/ Restart(w),
           NEW v \in Worker, v # w
    PROVE  /\ written'[v] = written[v]
           /\ WorkerId(v)' = WorkerId(v) /\ PartKeyOf(v)' = PartKeyOf(v)
           /\ \/ manifests' = manifests
              \/ PutManifest(w)
<1>a. TypeOK
  BY DEF Inv, Typed
<1> USE DEF TypeOK, services, buffers
<1>1. CASE FeedUpdate(w)
  BY <1>1, <1>a, Frame, OwnIds DEF FeedUpdate, PartKeyOf, WorkerId
<1>2. CASE PutDiscarded(w)
  BY <1>2, <1>a, Frame, OwnIds DEF PutDiscarded, PartKeyOf, WorkerId
<1>3. CASE PutManifest(w)
  BY <1>3, <1>a, Frame, OwnIds DEF PutManifest, PartKeyOf, WorkerId
<1>4. CASE Crash(w)
  BY <1>4, <1>a, Frame, OwnIds DEF Crash, PartKeyOf, WorkerId
<1>5. CASE Restart(w) \/ Receive(w) \/ IdlePoll(w) \/ StopAtMaxPages(w)
           \/ ReadPage(w) \/ ReadMissing(w) \/ PutDocuments(w) \/ AckCurrent(w)
  BY <1>5, <1>a, Frame, OwnIds DEF Restart, Receive, IdlePoll, StopAtMaxPages, ReadPage,
     ReadMissing, PutDocuments, AckCurrent, PartKeyOf, WorkerId
<1> QED
  BY <1>1, <1>2, <1>3, <1>4, <1>5 DEF Step

\* A step writes the fragment of its worker only, which exists.
LEMMA FragmentsStep ==
    ASSUME Inv, Inv', Distinct, Distinct', FragmentsInv, NEW w \in Worker,
           Step(w) \/ Crash(w) \/ Restart(w)
    PROVE  FragmentsInv'
<1> SUFFICES ASSUME NEW o \in DOMAIN manifests', NEW v \in Worker, o[1] = v
             PROVE  o[2] <= runs'[v]
  BY DEF FragmentsInv
<1>1. runs[v] \in Nat /\ runs'[v] \in Nat /\ runs[v] <= runs'[v]
  BY RunsGrow
<1>2. CASE o \in DOMAIN manifests
  <2>1. o[2] <= runs[v] /\ o[2] \in Nat
    BY <1>2 DEF FragmentsInv, Inv, Typed, TypeOK, OwnerId
  <2> QED
    BY <1>1, <2>1
<1>3. CASE o \notin DOMAIN manifests
  <2>1. PutManifest(w)
    BY <1>3 DEF Step, Receive, IdlePoll, StopAtMaxPages, ReadPage, ReadMissing,
                PutDocuments, FeedUpdate, PutDiscarded, AckCurrent, Crash, Restart, services
  <2>2. o = WorkerId(w)
    BY <1>3, <2>1 DEF PutManifest, PutObject
  <2>3. o = <<w, runs[w]>>
    BY <2>2, OwnIds
  <2> QED
    BY <1>1, <2>3
<1> QED
  BY <1>2, <1>3

\* What one worker counts is not the business of another.
LEMMA OthersCounted ==
    ASSUME Inv, Inv', Distinct, Distinct', FragmentInv, NEW w \in Worker,
           Step(w) \/ Crash(w) \/ Restart(w), NEW v \in Worker, v # w
    PROVE  FragmentOk(v)'
<1>1. /\ pc'[v] = pc[v] /\ documents'[v] = documents[v] /\ discarded'[v] = discarded[v]
      /\ partSeq'[v] = partSeq[v] /\ written'[v] = written[v]
      /\ WorkerId(v)' = WorkerId(v) /\ PartKeyOf(v)' = PartKeyOf(v)
  BY Frame, OthersFragments DEF Inv, Typed
<1>2. AddsOnly(parts, parts', w) /\ AddsOnly(refused, refused', w)
  BY StepAdds DEF Distinct
<1>3. PICK id : id = WorkerId(v)
  OBVIOUS
<1>4. PartKeyOf(w).owner # id /\ WorkerId(w) # id
  BY <1>3, OwnIds
<1>5. /\ FilesOf(parts', id) = FilesOf(parts, id) /\ FilesOf(refused', id) = FilesOf(refused, id)
      /\ \A k \in FilesOf(parts, id) : parts'[k] = parts[k]
      /\ \A k \in FilesOf(refused, id) : refused'[k] = refused[k]
  BY <1>2, <1>4 DEF AddsOnly, FilesOf
<1>6. LinesOf(parts', id) = LinesOf(parts, id) /\ LinesOf(refused', id) = LinesOf(refused, id)
  BY <1>5 DEF LinesOf
<1>7. /\ id \in DOMAIN manifests' <=> id \in DOMAIN manifests
      /\ id \in DOMAIN manifests => manifests'[id] = manifests[id]
  <2>1. CASE manifests' = manifests
    BY <2>1
  <2>2. CASE PutManifest(w)
    BY <1>4, <2>2 DEF PutManifest, PutObject
  <2> QED
    BY <2>1, <2>2, OthersFragments DEF Inv, Typed
<1>8. PartKeyOf(v) \in DOMAIN parts \cup DOMAIN refused
         => PartKeyOf(v)' \in DOMAIN parts' \cup DOMAIN refused'
  BY <1>1, <1>2 DEF AddsOnly
<1>9. FragmentOk(v)
  BY DEF FragmentInv
<1>10. CASE pc[v] = "crashed"
  BY <1>1, <1>9, <1>10 DEF FragmentOk, NothingYet
<1>11. CASE pc[v] # "crashed"
  <2>1. CountedOk(v, id)
    BY <1>3, <1>9, <1>11 DEF FragmentOk
  <2>2. CountedOk(v, id)'
    BY <1>1, <1>5, <1>6, <1>7, <1>8, <2>1 DEF CountedOk
  <2> QED
    BY <1>1, <1>3, <1>11, <2>2 DEF FragmentOk
<1> QED
  BY <1>10, <1>11

\* A worker that neither writes a part nor the manifest counts what it did.
LEMMA CountStays ==
    ASSUME Inv, FragmentInv, NEW w \in Worker,
           \/ Receive(w) \/ IdlePoll(w) \/ StopAtMaxPages(w)
           \/ ReadPage(w) \/ ReadMissing(w) \/ AckCurrent(w)
    PROVE  FragmentOk(w)'
<1>1. UNCHANGED <<parts, refused, manifests, written, partSeq, runs>>
  BY DEF Receive, IdlePoll, StopAtMaxPages, ReadPage, ReadMissing, AckCurrent,
         services, buffers, history
<1>2. pc[w] \in {"poll", "read", "ack"}
  BY DEF Receive, IdlePoll, StopAtMaxPages, ReadPage, ReadMissing, AckCurrent
<1>3. pc'[w] \in {"poll", "read", "ack", "stopped", "parts", "refused"}
  <2>a. pc \in [Worker -> Steps]
    BY DEF Inv, Typed, TypeOK
  <2>1. CASE Receive(w) \/ ReadMissing(w) \/ AckCurrent(w)
    BY <2>1, <2>a DEF Receive, ReadMissing, AckCurrent, Goto
  <2>2. CASE IdlePoll(w)
    BY <2>2, <2>a, FlushStepType DEF IdlePoll, LastFlush, Goto
  <2>3. CASE StopAtMaxPages(w)
    BY <2>3, <2>a, FlushStepType DEF StopAtMaxPages, LastFlush, Goto
  <2>4. CASE ReadPage(w)
    BY <2>4, <2>a, FlushStepType DEF ReadPage, Goto
  <2> QED
    BY <2>1, <2>2, <2>3, <2>4
<1>4. WorkerId(w)' = WorkerId(w) /\ PartKeyOf(w)' = PartKeyOf(w)
  BY <1>1 DEF WorkerId, PartKeyOf
<1>5. PICK id : id = WorkerId(w)
  OBVIOUS
<1>6. CountedOk(w, id)
  BY <1>2, <1>5 DEF FragmentInv, FragmentOk
<1>7. CountedOk(w, id)'
  BY <1>1, <1>2, <1>3, <1>6 DEF CountedOk
<1> QED
  BY <1>3, <1>4, <1>5, <1>7 DEF FragmentOk

\* A part is written, and counted once it has been fed.
LEMMA CountDocuments ==
    ASSUME Inv, Distinct, FragmentInv, NEW w \in Worker, PutDocuments(w)
    PROVE  FragmentOk(w)'
<1>1. /\ pc[w] = "parts" /\ pc'[w] = "feed"
      /\ parts' = PutObject(parts, PartKeyOf(w), documents[w])
      /\ UNCHANGED <<refused, manifests, written, partSeq, runs, documents>>
  BY DEF PutDocuments, Goto, Inv, Typed, TypeOK, buffers, history
<1>2. PartKeyOf(w) \notin DOMAIN parts
  BY <1>1, NextPartIsNew DEF Distinct
<1>3. documents[w] \in Seq(Indexable) /\ written[w] \in [documents: Nat, discarded: Nat]
  BY DEF Inv, Typed, TypeOK
<1>4. WorkerId(w)' = WorkerId(w)
  BY <1>1 DEF WorkerId
<1>5. PICK id : id = WorkerId(w)
  OBVIOUS
<1>6. CountedOk(w, id)
  BY <1>1, <1>5 DEF FragmentInv, FragmentOk
<1>7. PICK n \in Nat : n = Len(documents[w]) /\ DOMAIN documents[w] = 1 .. n
  BY <1>3, LenProperties
<1>8. PartKeyOf(w).owner = id
  BY <1>5 DEF PartKeyOf
<1>9. /\ IsFiniteSet(LinesOf(parts', id))
      /\ Cardinality(LinesOf(parts', id)) = Cardinality(LinesOf(parts, id)) + n
  BY <1>1, <1>2, <1>6, <1>7, <1>8, LinesAdded DEF CountedOk
<1>10. CountedOk(w, id)'
  BY <1>1, <1>3, <1>6, <1>7, <1>9 DEF CountedOk
<1> QED
  BY <1>1, <1>4, <1>5, <1>10 DEF FragmentOk

LEMMA CountFed ==
    ASSUME Inv, Distinct, FragmentInv, NEW w \in Worker, FeedUpdate(w)
    PROVE  FragmentOk(w)'
<1>a. TypeOK
  BY DEF Inv, Typed
<1>1. /\ pc[w] = "feed" /\ UNCHANGED <<parts, refused, manifests, partSeq, runs>>
      /\ \/ UNCHANGED <<pc, documents, written>>
         \/ /\ pc'[w] = FlushStep(<<>>, discarded[w], "manifest")
            /\ written'[w].documents = written[w].documents + Len(documents[w])
            /\ written'[w].discarded = written[w].discarded
  BY <1>a DEF FeedUpdate, Goto, TypeOK, history
<1>2. FlushStep(<<>>, discarded[w], "manifest") \in {"refused", "manifest"}
  BY FlushStepType
<1>3. PartKeyOf(w) \in DOMAIN parts
  BY <1>1 DEF Inv, Distinct, PartInv, FeedInv
<1>4. WorkerId(w)' = WorkerId(w) /\ PartKeyOf(w)' = PartKeyOf(w)
  BY <1>1 DEF WorkerId, PartKeyOf
<1>5. PICK id : id = WorkerId(w)
  OBVIOUS
<1>6. CountedOk(w, id)
  BY <1>1, <1>5 DEF FragmentInv, FragmentOk
<1>7. documents[w] \in Seq(Indexable) /\ written[w] \in [documents: Nat, discarded: Nat]
  BY <1>a DEF TypeOK
<1>8. CountedOk(w, id)'
  <2>1. CASE UNCHANGED <<pc, documents, written>>
    BY <1>1, <1>6, <2>1 DEF CountedOk
  <2>2. CASE /\ pc'[w] \in {"refused", "manifest"}
             /\ written'[w].documents = written[w].documents + Len(documents[w])
             /\ written'[w].discarded = written[w].discarded
    <3>1. Cardinality(LinesOf(parts', id)) = written'[w].documents
      BY <1>1, <1>6, <2>2 DEF CountedOk
    <3> QED
      BY <1>1, <1>3, <1>4, <1>6, <1>7, <2>2, <3>1 DEF CountedOk
  <2> QED
    BY <1>1, <1>2, <2>1, <2>2
<1> QED
  BY <1>1, <1>2, <1>4, <1>5, <1>8 DEF FragmentOk

LEMMA CountDiscarded ==
    ASSUME Inv, Distinct, FragmentInv, NEW w \in Worker, PutDiscarded(w)
    PROVE  FragmentOk(w)'
<1>a. TypeOK
  BY DEF Inv, Typed
<1>1. /\ pc[w] = "refused" /\ pc'[w] = "manifest"
      /\ refused' = PutObject(refused, PartKeyOf(w), discarded[w])
      /\ UNCHANGED <<parts, manifests, partSeq, runs>>
      /\ written'[w].documents = written[w].documents
      /\ written'[w].discarded = written[w].discarded + Len(discarded[w])
  BY <1>a DEF PutDiscarded, Goto, TypeOK, history
<1>2. PartKeyOf(w) \notin DOMAIN refused /\ PartKeyOf(w) \in DOMAIN refused'
  BY <1>1, NextPartIsNew DEF Distinct, PutObject
<1>3. discarded[w] \in Seq(Page \ Indexable) /\ written[w] \in [documents: Nat, discarded: Nat]
  BY <1>a DEF TypeOK
<1>4. WorkerId(w)' = WorkerId(w) /\ PartKeyOf(w)' = PartKeyOf(w)
  BY <1>1 DEF WorkerId, PartKeyOf
<1>5. PICK id : id = WorkerId(w)
  OBVIOUS
<1>6. CountedOk(w, id)
  BY <1>1, <1>5 DEF FragmentInv, FragmentOk
<1>7. PICK n \in Nat : n = Len(discarded[w]) /\ DOMAIN discarded[w] = 1 .. n
  BY <1>3, LenProperties
<1>8. PartKeyOf(w).owner = id
  BY <1>5 DEF PartKeyOf
<1>9. /\ IsFiniteSet(LinesOf(refused', id))
      /\ Cardinality(LinesOf(refused', id)) = Cardinality(LinesOf(refused, id)) + n
  BY <1>1, <1>2, <1>6, <1>7, <1>8, LinesAdded DEF CountedOk
<1>10. CountedOk(w, id)'
  BY <1>1, <1>2, <1>3, <1>4, <1>6, <1>7, <1>9 DEF CountedOk
<1> QED
  BY <1>1, <1>4, <1>5, <1>10 DEF FragmentOk

LEMMA CountDeclared ==
    ASSUME Inv, Distinct, FragmentInv, NEW w \in Worker, PutManifest(w)
    PROVE  FragmentOk(w)'
<1>a. TypeOK
  BY DEF Inv, Typed
<1>1. /\ pc[w] = "manifest" /\ pc'[w] \in {"ack", "stopped"}
      /\ manifests' = PutObject(manifests, WorkerId(w),
                                [count |-> written[w], files |-> partSeq'[w]])
      /\ UNCHANGED <<parts, refused, written, runs>>
  BY <1>a DEF PutManifest, Goto, TypeOK, history
<1>2. WorkerId(w)' = WorkerId(w)
  BY <1>1 DEF WorkerId
<1>3. PICK id : id = WorkerId(w)
  OBVIOUS
<1>4. CountedOk(w, id)
  BY <1>1, <1>3 DEF FragmentInv, FragmentOk
<1>5. /\ id \in DOMAIN manifests' /\ manifests'[id].count = written[w]
      /\ manifests'[id].files = partSeq'[w]
  BY <1>1, <1>3 DEF PutObject
<1>6. FilesOf(parts, id) \cup FilesOf(refused, id) # {}
  <2>1. PartKeyOf(w) \in DOMAIN parts \cup DOMAIN refused
    BY <1>1, <1>4 DEF CountedOk
  <2>2. PartKeyOf(w).owner = id
    BY <1>3 DEF PartKeyOf
  <2> QED
    BY <2>1, <2>2 DEF FilesOf
<1>7. CountedOk(w, id)'
  BY <1>1, <1>4, <1>5, <1>6 DEF CountedOk
<1> QED
  BY <1>1, <1>2, <1>3, <1>7 DEF FragmentOk

\* A worker that dies knows nothing, and the one in its place has no parts yet.
LEMMA CountAnew ==
    ASSUME Inv, Inv', Distinct, Distinct', FragmentInv, NEW w \in Worker,
           Crash(w) \/ Restart(w)
    PROVE  FragmentOk(w)'
<1>a. TypeOK
  BY DEF Inv, Typed
<1>1. CASE Crash(w)
  BY <1>1, <1>a DEF Crash, Goto, TypeOK, FragmentOk, NothingYet
<1>2. CASE Restart(w)
  <2>1. /\ pc[w] = "crashed" /\ pc'[w] = "poll"
        /\ UNCHANGED <<parts, refused, manifests, written>>
        /\ runs'[w] = runs[w] + 1 /\ runs[w] \in Nat
    BY <1>2, <1>a DEF Restart, Goto, TypeOK, services, buffers
  <2>2. PICK id : id = <<w, runs[w] + 1>>
    OBVIOUS
  <2>3. WorkerId(w)' = id
    BY <2>1, <2>2, OwnIds
  <2>4. \A k \in DOMAIN parts \cup DOMAIN refused : k.owner # id
    <3> SUFFICES ASSUME NEW k \in DOMAIN parts \cup DOMAIN refused, k.owner = id
                 PROVE  FALSE
      OBVIOUS
    <3>1. k.owner[2] <= runs[w]
      BY <2>2 DEF Inv, Distinct, PartInv, OwnersInv
    <3> QED
      BY <2>1, <2>2, <3>1
  <2>5. id \notin DOMAIN manifests
    <3> SUFFICES ASSUME id \in DOMAIN manifests PROVE FALSE
      OBVIOUS
    <3>1. id[2] <= runs[w]
      BY <2>2 DEF FragmentInv, FragmentsInv
    <3> QED
      BY <2>1, <2>2, <3>1
  <2>6. FilesOf(parts, id) = {} /\ FilesOf(refused, id) = {}
    BY <2>4 DEF FilesOf
  <2>7. LinesOf(parts, id) = {} /\ LinesOf(refused, id) = {}
    BY <2>6 DEF LinesOf
  <2>8. written[w] = NothingYet
    BY <2>1 DEF FragmentInv, FragmentOk
  <2>9. CountedOk(w, id)'
    BY <2>1, <2>5, <2>6, <2>7, <2>8, FS_EmptySet DEF CountedOk, NothingYet
  <2> QED
    BY <2>1, <2>3, <2>9 DEF FragmentOk
<1> QED
  BY <1>1, <1>2

\* Nothing is written at first.
LEMMA FragmentInit == Init => FragmentInv
<1> SUFFICES ASSUME Init PROVE FragmentInv
  OBVIOUS
<1>1. DOMAIN parts = {} /\ DOMAIN refused = {} /\ DOMAIN manifests = {}
  BY DEF Init, NoObjects
<1>2. ASSUME NEW w \in Worker PROVE FragmentOk(w)
  <2>1. pc[w] = "poll" /\ written[w] = NothingYet
    BY DEF Init
  <2>2. PICK id : id = WorkerId(w)
    OBVIOUS
  <2>3. FilesOf(parts, id) = {} /\ FilesOf(refused, id) = {}
    BY <1>1 DEF FilesOf
  <2>4. LinesOf(parts, id) = {} /\ LinesOf(refused, id) = {}
    BY <2>3 DEF LinesOf
  <2>5. CountedOk(w, id)
    BY <1>1, <2>1, <2>3, <2>4, FS_EmptySet DEF CountedOk, NothingYet
  <2> QED
    BY <2>1, <2>2, <2>5 DEF FragmentOk
<1>3. FragmentsInv
  BY <1>1 DEF FragmentsInv
<1> QED
  BY <1>2, <1>3 DEF FragmentInv

\* Every step keeps every worker's count.
LEMMA FragmentNext ==
    ASSUME Inv, Inv', Distinct, Distinct', FragmentInv, [Next]_vars
    PROVE  FragmentInv'
<1>1. CASE \E w \in Worker : Step(w) \/ Crash(w) \/ Restart(w)
  <2>1. PICK w \in Worker : Step(w) \/ Crash(w) \/ Restart(w)
    BY <1>1
  <2>2. FragmentsInv'
    BY <2>1, FragmentsStep DEF FragmentInv
  <2>3. FragmentOk(w)'
    BY <2>1, CountStays, CountDocuments, CountFed, CountDiscarded, CountDeclared,
       CountAnew DEF Step
  <2>4. \A v \in Worker \ {w} : FragmentOk(v)'
    BY <2>1, OthersCounted
  <2> QED
    BY <2>2, <2>3, <2>4 DEF FragmentInv
<1>2. CASE \/ \E p \in Page : Announce(p)
           \/ UNCHANGED vars
  <2>1. UNCHANGED <<parts, refused, manifests, pc, documents, written, partSeq, runs>>
    BY <1>2 DEF Announce, vars, services, buffers, history
  <2> QED
    BY <2>1 DEF FragmentInv, FragmentsInv, FragmentOk, CountedOk, WorkerId, PartKeyOf
<1> QED
  BY <1>1, <1>2 DEF Next

\* What was counted is what the fragment says of the part files.
LEMMA FragmentExact ==
    ASSUME Inv, Distinct, FragmentInv
    PROVE  ManifestIsExact
<1> SUFFICES ASSUME NEW w \in Worker, pc[w] \in {"poll", "read", "ack", "stopped"},
                    NEW id, id = WorkerId(w),
                    FilesOf(parts, id) \cup FilesOf(refused, id) # {}
             PROVE  /\ id \in DOMAIN manifests
                    /\ manifests[id].count =
                          [documents |-> Cardinality(LinesOf(parts, id)),
                           discarded |-> Cardinality(LinesOf(refused, id))]
                    /\ \A k \in FilesOf(parts, id) \cup FilesOf(refused, id) :
                          k.seq < manifests[id].files
  <2>1. ASSUME NEW w \in Worker, pc[w] \in {"poll", "read", "ack", "stopped"},
               FilesOf(parts, WorkerId(w)) \cup FilesOf(refused, WorkerId(w)) = {}
        PROVE  WorkerId(w) \notin DOMAIN manifests
    BY <2>1 DEF FragmentInv, FragmentOk, CountedOk
  <2> QED
    BY <2>1 DEF ManifestIsExact
<1>1. CountedOk(w, id)
  BY DEF FragmentInv, FragmentOk
<1>2. /\ id \in DOMAIN manifests
      /\ manifests[id].count = written[w] /\ manifests[id].files = partSeq[w]
  BY <1>1 DEF CountedOk
<1>3. written[w] \in [documents: Nat, discarded: Nat]
  BY DEF Inv, Typed, TypeOK
<1>4. /\ Cardinality(LinesOf(parts, id)) = written[w].documents
      /\ Cardinality(LinesOf(refused, id)) = written[w].discarded
  BY <1>1, <1>3 DEF CountedOk
<1>5. written[w] = [documents |-> Cardinality(LinesOf(parts, id)),
                    discarded |-> Cardinality(LinesOf(refused, id))]
  BY <1>3, <1>4
<1>6. \A k \in FilesOf(parts, id) \cup FilesOf(refused, id) : k.seq < partSeq[w]
  BY DEF FilesOf, Inv, Distinct, PartInv, PartsInv, RefusedInv
<1> QED
  BY <1>2, <1>5, <1>6

\* The count is kept for as long as identities are distinct.
LEMMA FragmentInvariant == Spec => [](Distinct => FragmentInv)
<1>1. Init => FragmentInv
  BY FragmentInit
<1>2. Inv /\ Inv' /\ (Distinct => FragmentInv) /\ [Next]_vars
        => (Distinct' => FragmentInv')
  <2> SUFFICES ASSUME Inv, Inv', Distinct => FragmentInv, [Next]_vars, Distinct'
               PROVE  FragmentInv'
    OBVIOUS
  <2>1. Distinct
    BY CrashStep DEF Inv
  <2> QED
    BY <2>1, FragmentNext
<1> QED
  BY <1>1, <1>2, PartInvariant, PTL DEF Spec

\* When a worker that replaces another has an identity of its own, build-index
\* has nothing to refuse: between flushes a worker's fragment has the totals of
\* its part files, whoever crashed.
THEOREM ManifestsAreExact ==
    ASSUME ~KeepsId
    PROVE  Spec => []ManifestIsExact
<1>1. Inv /\ (Distinct => FragmentInv) => ManifestIsExact
  BY FragmentExact DEF Distinct
<1> QED
  BY <1>1, PartInvariant, FragmentInvariant, PTL
=============================================================================
