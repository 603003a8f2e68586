----------------------- MODULE IncrementalIndexerProofs -----------------------
(***************************************************************************)
(* What holds of the published index, for every number of updates, crashes *)
(* and losses of the volume.                                               *)
(*                                                                         *)
(* That a manifest is complete (SnapshotInv) rests on the publisher's      *)
(* memory of the storage, which never names a file that is not there, so   *)
(* the commit finds every file it names; and from the commit to the end of *)
(* the deletions the manifest is the one of the local index, so what the   *)
(* deletions spare is what the published manifest names.                   *)
(*                                                                         *)
(* The rest is conjuncts of IndexerInv: what is in the files was brought   *)
(* by messages (FileInv); a process that keeps its volume never gives a    *)
(* name to other content (KeptInv); the local index reflects what was      *)
(* applied, and the published one what was confirmed (AppliedInv); and a   *)
(* text is at least as new as its document, in the local index and in the  *)
(* published one (TextsAreThere).                                          *)
(*                                                                         *)
(* The second half is about the exporter of bundles, which reads what is   *)
(* published: the theorems there are of BundleExport's specification.      *)
(***************************************************************************)
EXTENDS BundleExport, SequenceTheorems, WellFoundedInduction, TLAPS

\* Publishing keeps a stream well typed.
LEMMA PublishType ==
    ASSUME NEW Payload, NEW s \in StreamOf(Payload), NEW m \in Payload
    PROVE  Publish(s, m) \in StreamOf(Payload)
<1>1. Append(s.entries, m) \in Seq(Payload)
  BY AppendProperties DEF StreamOf
<1> QED
  BY <1>1 DEF Publish, StreamOf

\* Consuming keeps a stream well typed.
LEMMA ConsumeType ==
    ASSUME NEW Payload, NEW s \in StreamOf(Payload), NEW count \in Nat
    PROVE  /\ Consume(s, count) \in StreamOf(Payload)
           /\ LastDelivered(s, count) \in Nat
<1>1. Len(s.entries) \in Nat /\ s.cursor \in Nat /\ s.pending \subseteq Nat
  BY DEF StreamOf
<1>2. LastDelivered(s, count) \in Nat
  BY <1>1 DEF LastDelivered
<1>3. (s.cursor + 1) .. LastDelivered(s, count) \subseteq Nat
  BY <1>1, <1>2
<1> QED
  BY <1>1, <1>2, <1>3 DEF Consume, StreamOf

\* Confirming keeps a stream well typed.
LEMMA AckType ==
    ASSUME NEW Payload, NEW s \in StreamOf(Payload), NEW id
    PROVE  Ack(s, id) \in StreamOf(Payload)
BY DEF Ack, StreamOf

-----------------------------------------------------------------------------

MemoryInv == uploaded \subseteq DOMAIN remote
CommitInv == pc \in {"pointer", "marker", "purge"} => manifest.layers = local.layers

SnapshotInv == MemoryInv /\ CommitInv /\ PublishedIsComplete

LEMMA SnapshotInit == Init => SnapshotInv
<1> SUFFICES ASSUME Init PROVE SnapshotInv
  OBVIOUS
<1>1. MemoryInv /\ CommitInv
  BY DEF Init, MemoryInv, CommitInv
<1>2. manifest.layers = <<>> /\ ToSet(<<>>) = {}
  BY DEF Init, NoManifest, ToSet
<1> QED
  BY <1>1, <1>2 DEF SnapshotInv, PublishedIsComplete

LEMMA SnapshotNext == SnapshotInv /\ [Next]_vars => SnapshotInv'
<1> SUFFICES ASSUME SnapshotInv, [Next]_vars PROVE SnapshotInv'
  OBVIOUS
<1> USE DEF SnapshotInv, MemoryInv, CommitInv, PublishedIsComplete
<1>1. CASE UNCHANGED vars
  BY <1>1 DEF vars, storage, volume, memory
<1>2. CASE \E update \in Update \cup {Junk} : Send(update)
  BY <1>2 DEF Send, storage, volume, memory
<1>3. CASE Open
  BY <1>3 DEF Open, storage, memory
<1>4. CASE RestoreFiles
  BY <1>4 DEF RestoreFiles, storage, memory
<1>5. CASE RestoreManifest
  BY <1>5 DEF RestoreManifest, storage, memory
<1>6. CASE Collect
  BY <1>6 DEF Collect, storage, volume, memory
<1>7. CASE CloseBatch
  BY <1>7 DEF CloseBatch, storage, volume, memory
<1>8. CASE PutText
  BY <1>8 DEF PutText, volume, memory
<1>9. CASE AddDocuments
  BY <1>9 DEF AddDocuments, storage, memory
<1>10. CASE DeleteUrls
  BY <1>10 DEF DeleteUrls, storage, memory
<1>11. CASE MaybeMerge
  BY <1>11 DEF MaybeMerge, storage, memory
<1>12. CASE ListRemote
  BY <1>12 DEF ListRemote, storage, volume
<1>13. CASE Upload
  <2>1. PICK n \in Missing : /\ remote' = PutObject(remote, n, local.files[n])
                             /\ uploaded' = uploaded \cup {n}
    BY <1>13 DEF Upload
  <2>2. DOMAIN remote' = DOMAIN remote \cup {n}
    BY <2>1 DEF PutObject
  <2> QED
    BY <1>13, <2>1, <2>2 DEF Upload, volume
<1>14. CASE PutManifest
  <2>1. manifest'.layers = local.layers /\ ToSet(local.layers) \subseteq uploaded
    BY <1>14 DEF PutManifest, ManifestOf, Missing, FilesOf
  <2> QED
    BY <1>14, <2>1 DEF PutManifest, volume, memory
<1>15. CASE PutPointer
  BY <1>15 DEF PutPointer, volume, memory
<1>16. CASE PutMarker
  BY <1>16 DEF PutMarker, volume, memory
<1>17. CASE DeleteObsolete
  <2>1. PICK n \in Obsolete : /\ remote' = DeleteObject(remote, n)
                              /\ uploaded' = uploaded \ {n}
    BY <1>17 DEF DeleteObsolete
  <2>2. DOMAIN remote' = DOMAIN remote \ {n}
    BY <2>1 DEF DeleteObject
  <2>3. n \notin ToSet(manifest.layers)
    BY <1>17 DEF DeleteObsolete, Obsolete, FilesOf
  <2> QED
    BY <1>17, <2>1, <2>2, <2>3 DEF DeleteObsolete, volume
<1>18. CASE EndPublish
  BY <1>18 DEF EndPublish, storage, volume
<1>19. CASE DeleteText
  BY <1>19 DEF DeleteText, volume, memory
<1>20. CASE AckNext
  BY <1>20 DEF AckNext, storage, volume, memory
<1>21. CASE Crash
  BY <1>21 DEF Crash, storage, volume
<1>22. CASE LoseVolume
  BY <1>22 DEF LoseVolume, storage, memory
<1> QED
  BY <1>1, <1>2, <1>3, <1>4, <1>5, <1>6, <1>7, <1>8, <1>9, <1>10, <1>11,
     <1>12, <1>13, <1>14, <1>15, <1>16, <1>17, <1>18, <1>19, <1>20, <1>21,
     <1>22 DEF Next, Step

\* The manifest in storage never names a file that is not in storage: not
\* while publish uploads or deletes, and not after a crash in the middle.
THEOREM SnapshotIsComplete == Spec => []PublishedIsComplete
<1>1. SnapshotInv => PublishedIsComplete
  BY DEF SnapshotInv
<1> QED
  BY SnapshotInit, SnapshotNext, <1>1, PTL DEF Spec
-----------------------------------------------------------------------------
(***************************************************************************)
(* What is in the files.                                                   *)
(***************************************************************************)
\* In the stream s, message d is there and brought a document for the URL.
Brought(s, d, url) ==
    /\ d \in 1 .. s.cursor
    /\ s.entries[d] # Junk /\ s.entries[d].url = url /\ s.entries[d].doc

IsFile(s, f) ==
    /\ f = [url \in DOMAIN f |-> f[url]]
    /\ DOMAIN f \subseteq Url
    /\ \A url \in DOMAIN f : f[url] = Dead \/ Brought(s, f[url], url)

AreFiles(s, stored) ==
    /\ stored = [n \in DOMAIN stored |-> stored[n]]
    /\ DOMAIN stored \subseteq FileName
    /\ \A n \in DOMAIN stored : IsFile(s, stored[n])

IsManifest(m) ==
    /\ m = [layers |-> m.layers, next |-> m.next]
    /\ m.layers \in Seq(FileName) /\ m.next \in Nat
    /\ \A n \in ToSet(m.layers) : n.number < m.next

IsVersion(s, v) ==
    /\ v = [manifest |-> v.manifest, files |-> v.files]
    /\ IsManifest(v.manifest) /\ AreFiles(s, v.files)
    /\ DOMAIN v.files = ToSet(v.manifest.layers)

IsIndex(s, index) ==
    /\ index = [layers |-> index.layers, next |-> index.next, files |-> index.files]
    /\ index.layers \in Seq(FileName) /\ index.next \in Nat
    /\ AreFiles(s, index.files)
    /\ FilesOf(index) \subseteq DOMAIN index.files
    /\ \A n \in DOMAIN index.files : n.number < index.next

StreamInv ==
    /\ updates \in StreamOf(Update \cup {Junk})
    /\ updates.cursor <= Len(updates.entries)
    /\ updates.pending \subseteq 1 .. updates.cursor

BatchInv ==
    /\ batch \in [first: Nat \ {0}, last: Nat]
    /\ Collected # {} => batch.last = updates.cursor
    /\ Collected \subseteq updates.pending
    /\ pc \in {"open", "restore"} => Collected = {}
    /\ pc \in Steps \ {"open", "restore", "collect"} => Collected # {}
    /\ pc \in Steps
    /\ todo \subseteq Collected
    /\ pc \notin {"texts", "confirm"} => todo = {}
    /\ pc = "texts" => todo \subseteq Upserts
    /\ pc = "confirm" => todo \subseteq Deletes
    /\ disk \in {"absent", "partial", "kept"}
    /\ listed \in BOOLEAN

FileInv ==
    /\ IsIndex(updates, local)
    /\ IsManifest(manifest) /\ AreFiles(updates, remote)
    /\ IsVersion(updates, pointer)

\* The names of the snapshot are never given to other files.
IsMade(index, stored, files) ==
    \A n \in DOMAIN files :
        /\ n.number < index.next
        /\ n \in DOMAIN index.files => files[n] = index.files[n]
        /\ n \in DOMAIN stored => files[n] = stored[n]

KeptInv ==
    /\ disk # "kept" =>
          pc = "open" /\ manifest = NoManifest /\ remote = NoObjects /\ local = EmptyIndex
    /\ pc # "restore"
    /\ IsMade(local, remote, remote)
    /\ IsMade(local, remote, pointer.files)

\* An update that has been applied.
Reflects(s, i, doc) ==
    \E j \in i .. s.cursor :
        /\ s.entries[j] # Junk /\ s.entries[j].url = s.entries[i].url
        /\ doc = IF s.entries[j].doc THEN j ELSE Dead

AfterApply  == {"merge", "list", "upload", "pointer", "marker", "purge", "confirm"}
AfterCommit == {"pointer", "marker", "purge", "confirm"}

AppliedInv ==
    /\ \A i \in Acked(updates) : Valid(i) =>
          Reflects(updates, i, Live(Message(i).url)) /\ Reflects(updates, i, Published(Message(i).url))
    /\ pc = "delete" => \A i \in Upserts : Live(Message(i).url) = i
    /\ pc \in AfterApply =>
          \A i \in Collected : Valid(i) => Reflects(updates, i, Live(Message(i).url))
    /\ pc \in AfterCommit => manifest.layers = local.layers

TextInv ==
    /\ texts \in [Url -> 0 .. updates.cursor]
    /\ pc = "collect" /\ Collected # {} => \A url \in Url : texts[url] < batch.first

TextsAreThere ==
    /\ \A url \in Url : Live(url) <= texts[url] /\ Published(url) <= texts[url]
    /\ pc = "texts" => \A i \in Upserts : 
          IF i \in todo THEN texts[Message(i).url] < i ELSE texts[Message(i).url] = i
    /\ pc = "confirm" => \A i \in todo : Live(Message(i).url) = Dead

IndexerInv ==
    /\ losses \in Nat
    /\ SnapshotInv /\ StreamInv /\ BatchInv /\ FileInv /\ TextInv
    /\ losses = 0 => KeptInv /\ AppliedInv /\ TextsAreThere

-----------------------------------------------------------------------------
LEMMA NatLeast ==
    ASSUME NEW T \in SUBSET Nat, T # {}
    PROVE  \E n \in T : \A m \in T : n <= m
<1> DEFINE R == {ss \in Nat \X Nat : ss[1] < ss[2]}
<1>1. IsWellFoundedOn(R, Nat)
  BY NatLessThanWellFounded DEF OpToRel
<1>2. \A m, n \in Nat : m < n => <<m, n>> \in R
  OBVIOUS
<1> HIDE DEF R
<1>3. \E n \in T : \A m \in T : ~(<<m, n>> \in R)
  BY <1>1, WFMin
<1>4. \A m \in T : m \in Nat
  OBVIOUS
<1>5. \A m, n \in Nat : <<m, n>> \notin R => n <= m
  BY <1>2
<1> QED
  BY <1>3, <1>4, <1>5, Zenon

LEMMA MinIsLeast ==
    ASSUME NEW S \in SUBSET Nat, S # {}
    PROVE  Min(S) \in S /\ \A x \in S : Min(S) <= x
BY NatLeast DEF Min

LEMMA MaxIsLast ==
    ASSUME NEW n \in Nat, NEW S \in SUBSET (1 .. n), S # {}
    PROVE  Max(S) \in S /\ \A x \in S : x <= Max(S)
<1> DEFINE T == {n - x : x \in S}
<1>1. \A x \in S : x \in 1 .. n /\ n - x \in Nat
  OBVIOUS
<1>2. T \in SUBSET Nat /\ T # {}
  BY <1>1
<1>3. PICK m \in T : \A k \in T : m <= k
  BY <1>2, NatLeast
<1>4. PICK y \in S : m = n - y
  BY <1>3
<1>5. \A x \in S : n - y <= n - x
  BY <1>3, <1>4
<1>6. \A x \in S : y >= x
  BY <1>1, <1>5
<1>7. Max(S) \in S /\ \A x \in S : Max(S) >= x
  BY <1>6 DEF Max
<1> QED
  BY <1>1, <1>7

\* The layers that speak of a URL.
About(layers, files, url) ==
    {i \in DOMAIN layers : layers[i] \in DOMAIN files /\ url \in DOMAIN files[layers[i]]}

\* What an index says of a URL is what the last of them says.
LEMMA LiveIsLast ==
    ASSUME NEW layers \in Seq(FileName), NEW files, NEW url
    PROVE  /\ About(layers, files, url) = {} => LiveIn(layers, files, url) = Dead
           /\ \A k \in About(layers, files, url) :
                 (\A i \in About(layers, files, url) : i <= k)
                    => LiveIn(layers, files, url) = files[layers[k]][url]
           /\ About(layers, files, url) # {} =>
                 \E k \in About(layers, files, url) :
                    \A i \in About(layers, files, url) : i <= k
<1> DEFINE about == About(layers, files, url)
<1>1. DOMAIN layers = 1 .. Len(layers) /\ Len(layers) \in Nat
  OBVIOUS
<1>2. about \in SUBSET (1 .. Len(layers))
  BY <1>1 DEF About
<1>3. about # {} => Max(about) \in about /\ \A i \in about : i <= Max(about)
  BY <1>1, <1>2, MaxIsLast
<1>4. LiveIn(layers, files, url)
         = IF about = {} THEN Dead ELSE files[layers[Max(about)]][url]
  BY DEF LiveIn, About
<1> HIDE DEF about
<1>5. ASSUME NEW k \in about, \A i \in about : i <= k
      PROVE  LiveIn(layers, files, url) = files[layers[k]][url]
  <2>1. Max(about) \in about /\ Max(about) <= k /\ k <= Max(about)
    BY <1>3, <1>5
  <2>2. \A x \in about : x \in Int
    BY <1>1, <1>2
  <2>3. Max(about) \in Int /\ k \in Int
    BY <2>1, <2>2
  <2>4. Max(about) = k
    BY <2>1, <2>3
  <2> QED
    BY <2>4, <1>4
<1> QED
  BY <1>3, <1>4, <1>5 DEF about

\* It depends on the files of its layers only.
LEMMA LiveSame ==
    ASSUME NEW layers \in Seq(FileName), NEW f, NEW g, NEW url,
           \A n \in ToSet(layers) : n \in DOMAIN f /\ n \in DOMAIN g /\ f[n] = g[n]
    PROVE  LiveIn(layers, f, url) = LiveIn(layers, g, url)
<1>1. \A i \in DOMAIN layers : /\ layers[i] \in DOMAIN f /\ layers[i] \in DOMAIN g
                               /\ f[layers[i]] = g[layers[i]]
  BY DEF ToSet
<1>2. About(layers, f, url) = About(layers, g, url)
  BY <1>1 DEF About
<1>3. CASE About(layers, f, url) = {}
  BY <1>2, <1>3, LiveIsLast
<1>4. CASE About(layers, f, url) # {}
  <2>1. PICK k \in About(layers, f, url) : \A i \in About(layers, f, url) : i <= k
    BY <1>4, LiveIsLast
  <2>2. LiveIn(layers, f, url) = f[layers[k]][url]
    BY <2>1, LiveIsLast
  <2>3. LiveIn(layers, g, url) = g[layers[k]][url]
    BY <2>1, <1>2, LiveIsLast
  <2> QED
    BY <2>1, <2>2, <2>3, <1>1 DEF About
<1> QED
  BY <1>3, <1>4

\* A new file overrides the others.
LEMMA LiveWithFile ==
    ASSUME NEW layers \in Seq(FileName), NEW files, NEW name \in FileName,
           NEW file, NEW url, name \notin ToSet(layers)
    PROVE  LiveIn(Append(layers, name), PutObject(files, name, file), url)
              = IF url \in DOMAIN file THEN file[url] ELSE LiveIn(layers, files, url)
<1> DEFINE more  == Append(layers, name)
           put   == PutObject(files, name, file)
           n     == Len(layers)
<1>1. /\ more \in Seq(FileName) /\ n \in Nat
      /\ DOMAIN layers = 1 .. n /\ DOMAIN more = 1 .. (n + 1)
      /\ \A i \in 1 .. n : more[i] = layers[i]
      /\ more[n + 1] = name
  OBVIOUS
<1>2. DOMAIN put = DOMAIN files \cup {name} /\ put[name] = file
      /\ \A m \in DOMAIN files : m # name => put[m] = files[m]
  BY DEF PutObject
<1>3. \A i \in 1 .. n : layers[i] # name
  BY <1>1 DEF ToSet
<1> HIDE DEF more, put, n
<1>4. \A i \in 1 .. n : i \in About(more, put, url) <=> i \in About(layers, files, url)
  BY <1>1, <1>2, <1>3 DEF About
<1>5. n + 1 \in About(more, put, url) <=> url \in DOMAIN file
  BY <1>1, <1>2 DEF About
<1>6. About(more, put, url) \subseteq 1 .. (n + 1) /\ About(layers, files, url) \subseteq 1 .. n
  BY <1>1 DEF About
<1>7. CASE url \in DOMAIN file
  <2>1. \A i \in About(more, put, url) : i <= n + 1
    BY <1>1, <1>6
  <2>2. LiveIn(more, put, url) = put[more[n + 1]][url]
    BY <1>1, <1>5, <1>7, <2>1, LiveIsLast
  <2> QED
    BY <2>2, <1>1, <1>2, <1>7 DEF more, put
<1>8. CASE url \notin DOMAIN file
  <2>1. About(more, put, url) = About(layers, files, url)
    <3>1. n + 1 \notin About(more, put, url)
      BY <1>5, <1>8
    <3>2. \A i \in 1 .. (n + 1) : i # n + 1 => i \in 1 .. n
      BY <1>1
    <3> QED
      BY <3>1, <3>2, <1>4, <1>6, <1>1
  <2>2. CASE About(layers, files, url) = {}
    BY <1>1, <1>8, <2>1, <2>2, LiveIsLast DEF more, put
  <2>3. CASE About(layers, files, url) # {}
    <3>1. PICK k \in About(layers, files, url) : \A i \in About(layers, files, url) : i <= k
      BY <2>3, LiveIsLast
    <3>2. LiveIn(layers, files, url) = files[layers[k]][url]
      BY <3>1, LiveIsLast
    <3>3. LiveIn(more, put, url) = put[more[k]][url]
      BY <3>1, <2>1, <1>1, LiveIsLast
    <3>4. k \in 1 .. n /\ layers[k] \in DOMAIN files
      BY <1>6 DEF About
    <3>5. put[more[k]] = files[layers[k]]
      BY <3>4, <1>1, <1>2, <1>3
    <3> QED
      BY <3>2, <3>3, <3>5, <1>8 DEF more, put
  <2> QED
    BY <2>2, <2>3
<1> QED
  BY <1>7, <1>8 DEF more, put

-----------------------------------------------------------------------------
(***************************************************************************)
(* The stream.                                                             *)
(***************************************************************************)
\* Which steps write the stream.
LEMMA StreamSteps ==
    ASSUME [Next]_vars
    PROVE  \/ updates' = updates
           \/ \E update \in Update \cup {Junk} : updates' = Publish(updates, update)
           \/ \E count \in {BatchSize, Room} :
                 Collect /\ count > 0 /\ updates' = Consume(updates, count)
           \/ AckNext /\ updates' = Ack(updates, batch.first)
<1>1. CASE \E update \in Update \cup {Junk} : Send(update)
  BY <1>1 DEF Send
<1>2. CASE Collect
  BY <1>2, IndexerAssumption DEF Collect
<1>3. CASE AckNext
  BY <1>3 DEF AckNext
<1>4. CASE UNCHANGED vars
  BY <1>4 DEF vars
<1>5. CASE Open \/ RestoreFiles \/ RestoreManifest \/ CloseBatch
  BY <1>5 DEF Open, RestoreFiles, RestoreManifest, CloseBatch
<1>6. CASE PutText \/ AddDocuments \/ DeleteUrls \/ MaybeMerge \/ ListRemote
  BY <1>6 DEF PutText, AddDocuments, DeleteUrls, MaybeMerge, ListRemote
<1>7. CASE Upload \/ PutManifest \/ PutPointer \/ PutMarker \/ DeleteObsolete
  BY <1>7 DEF Upload, PutManifest, PutPointer, PutMarker, DeleteObsolete
<1>8. CASE EndPublish \/ DeleteText \/ Crash \/ LoseVolume
  BY <1>8 DEF EndPublish, DeleteText, Crash, LoseVolume
<1> QED
  BY <1>1, <1>2, <1>3, <1>4, <1>5, <1>6, <1>7, <1>8 DEF Next, Step

\* It grows, and keeps what it has.
GrowsTo(s, t) == /\ s.cursor <= t.cursor
                 /\ Len(s.entries) <= Len(t.entries)
                 /\ \A i \in 1 .. Len(s.entries) : t.entries[i] = s.entries[i]

Grows == GrowsTo(updates, updates')

LEMMA StreamNext ==
    ASSUME StreamInv, BatchInv, [Next]_vars
    PROVE  StreamInv' /\ Grows
<1> DEFINE s == updates
           M == Update \cup {Junk}
           SInv(t) == /\ t \in StreamOf(M)
                      /\ t.cursor <= Len(t.entries)
                      /\ t.pending \subseteq 1 .. t.cursor
           G(t) == /\ s.cursor <= t.cursor
                   /\ Len(s.entries) <= Len(t.entries)
                   /\ \A i \in 1 .. Len(s.entries) : t.entries[i] = s.entries[i]
<1>1. /\ s.entries \in Seq(M) /\ s.cursor \in Nat /\ s.pending \in SUBSET Nat
      /\ Len(s.entries) \in Nat /\ s.cursor <= Len(s.entries)
      /\ s.pending \subseteq 1 .. s.cursor
  BY DEF StreamInv, StreamOf
<1>2. SInv(s) /\ G(s)
  BY <1>1 DEF StreamInv
<1>0. s \in [entries: Seq(M), cursor: Nat, pending: SUBSET Nat]
  BY DEF StreamInv, StreamOf
<1>3. ASSUME NEW m \in M PROVE SInv(Publish(s, m)) /\ G(Publish(s, m))
  <2>1. /\ Publish(s, m).entries = Append(s.entries, m)
        /\ Publish(s, m).cursor = s.cursor /\ Publish(s, m).pending = s.pending
    BY <1>0 DEF Publish
  <2>3. Publish(s, m) \in StreamOf(M)
    BY <1>0, PublishType DEF StreamOf
  <2>2. /\ Append(s.entries, m) \in Seq(M)
        /\ Len(Append(s.entries, m)) = Len(s.entries) + 1
        /\ \A i \in 1 .. Len(s.entries) : Append(s.entries, m)[i] = s.entries[i]
    BY <1>1, AppendProperties
  <2> QED
    BY <2>1, <2>2, <2>3, <1>1
<1>4. ASSUME NEW count \in Nat PROVE SInv(Consume(s, count)) /\ G(Consume(s, count))
  <2> DEFINE l == LastDelivered(s, count)
  <2>1. l \in Nat /\ s.cursor <= l /\ l <= Len(s.entries)
    BY <1>1 DEF LastDelivered
  <2>2. /\ Consume(s, count).entries = s.entries /\ Consume(s, count).cursor = l
        /\ Consume(s, count).pending = s.pending \cup ((s.cursor + 1) .. l)
    BY <1>0 DEF Consume
  <2>4. Consume(s, count) \in StreamOf(M)
    BY <1>0, ConsumeType DEF StreamOf
  <2> HIDE DEF l
  <2>3. s.pending \cup ((s.cursor + 1) .. l) \subseteq 1 .. l
    BY <1>1, <2>1
  <2> QED
    BY <1>1, <2>1, <2>2, <2>3, <2>4
<1>5. ASSUME NEW id PROVE SInv(Ack(s, id)) /\ G(Ack(s, id))
  <2>1. /\ Ack(s, id).entries = s.entries /\ Ack(s, id).cursor = s.cursor
        /\ Ack(s, id).pending = s.pending \ {id}
    BY <1>0 DEF Ack
  <2>2. Ack(s, id) \in StreamOf(M)
    BY <1>0, AckType DEF StreamOf
  <2> QED
    BY <1>1, <2>1, <2>2
<1>6. Room \in Int /\ (\A count \in {BatchSize, Room} : count > 0 => count \in Nat)
  BY IndexerAssumption DEF Room, BatchInv
<1> HIDE DEF SInv, G
<1>7. SInv(updates') /\ G(updates')
  BY StreamSteps, <1>2, <1>3, <1>4, <1>5, <1>6
<1> QED
  BY <1>7 DEF SInv, G, StreamInv, Grows, GrowsTo

-----------------------------------------------------------------------------
(***************************************************************************)
(* The batch.                                                              *)
(***************************************************************************)
LEMMA BatchFacts ==
    ASSUME StreamInv, BatchInv
    PROVE  /\ batch.first \in Nat \ {0} /\ batch.last \in Nat
           /\ updates.cursor \in Nat /\ Len(updates.entries) \in Nat
           /\ Collected \subseteq 1 .. updates.cursor
           /\ \A i \in Collected : i \in 1 .. Len(updates.entries)
           /\ \A i \in 1 .. Len(updates.entries) : Message(i) \in Update \cup {Junk}
<1>1. updates.cursor \in Nat /\ updates.entries \in Seq(Update \cup {Junk})
  BY DEF StreamInv, StreamOf
<1>2. \A i \in 1 .. Len(updates.entries) : updates.entries[i] \in Update \cup {Junk}
  BY <1>1
<1>3. Len(updates.entries) \in Nat
  BY <1>1
<1>4. Collected \subseteq 1 .. updates.cursor
  BY DEF BatchInv, StreamInv
<1>5. updates.cursor <= Len(updates.entries)
  BY DEF StreamInv
<1>6. \A i \in 1 .. updates.cursor : i \in 1 .. Len(updates.entries)
  BY <1>1, <1>3, <1>5
<1> QED
  BY <1>1, <1>2, <1>3, <1>4, <1>6 DEF Message, BatchInv

\* A message that is there stays as it is.
LEMMA MessageStays ==
    ASSUME StreamInv, Grows
    PROVE  \A i \in 1 .. Len(updates.entries) :
              Message(i)' = Message(i) /\ (Valid(i)' <=> Valid(i))
BY DEF Grows, GrowsTo, Message, Valid

\* What is coalesced depends on the messages of the batch only.
LEMMA CoalescedStays ==
    ASSUME StreamInv, BatchInv, Grows, batch' = batch
    PROVE  /\ Collected' = Collected /\ Coalesced' = Coalesced
           /\ Upserts' = Upserts /\ Deletes' = Deletes
           /\ \A i \in Collected : Message(i)' = Message(i) /\ (Valid(i)' <=> Valid(i))
<1>1. \A i \in Collected : Message(i)' = Message(i) /\ (Valid(i)' <=> Valid(i))
  BY BatchFacts, MessageStays
<1>2. Collected' = Collected
  BY DEF Collected
<1>3. \A i \in Collected : \A j \in (i + 1) .. batch.last : j \in Collected
  BY BatchFacts DEF Collected
<1>4. Coalesced' = Coalesced
  BY <1>1, <1>2, <1>3 DEF Coalesced
<1>5. Coalesced \subseteq Collected
  BY DEF Coalesced
<1> QED
  BY <1>1, <1>2, <1>4, <1>5 DEF Upserts, Deletes

\* Two coalesced messages are about different URLs, and each valid message of
\* the batch is followed by one that stands for it.
LEMMA CoalescedFacts ==
    ASSUME StreamInv, BatchInv
    PROVE  /\ Coalesced \subseteq Collected
           /\ \A i \in Coalesced : Valid(i)
           /\ \A i, j \in Coalesced : Message(i).url = Message(j).url => i = j
           /\ \A i \in Coalesced : \A k \in Collected :
                 Valid(k) /\ Message(k).url = Message(i).url => k <= i
           /\ \A i \in Collected : Valid(i) =>
                 \E j \in Coalesced : i <= j /\ Message(j).url = Message(i).url
<1>1. Coalesced \subseteq Collected /\ \A i \in Coalesced : Valid(i)
  BY DEF Coalesced
<1>2. Collected \subseteq 1 .. updates.cursor /\ updates.cursor \in Nat
      /\ batch.first \in Nat /\ batch.last \in Nat
  BY BatchFacts
<1>3. \A i \in Coalesced : \A k \in Collected :
         Valid(k) /\ Message(k).url = Message(i).url => k <= i
  <2> TAKE i \in Coalesced
  <2> TAKE k \in Collected
  <2>1. ~(k <= i) => k \in (i + 1) .. batch.last
    BY <1>1, <1>2 DEF Collected
  <2> QED
    BY <2>1 DEF Coalesced
<1>4. \A i, j \in Coalesced : Message(i).url = Message(j).url => i = j
  <2> TAKE i, j \in Coalesced
  <2>1. i \in Nat /\ j \in Nat
    BY <1>1, <1>2
  <2>2. Message(i).url = Message(j).url => i <= j /\ j <= i
    BY <1>1, <1>3
  <2> QED
    BY <2>1, <2>2
<1>5. ASSUME NEW i \in Collected, Valid(i)
      PROVE  \E j \in Coalesced : i <= j /\ Message(j).url = Message(i).url
  <2> DEFINE S == {k \in Collected : Valid(k) /\ Message(k).url = Message(i).url}
  <2>1. S \in SUBSET (1 .. updates.cursor) /\ i \in S
    BY <1>2, <1>5
  <2>2. PICK j \in S : \A k \in S : k <= j
    BY <2>1, <1>2, MaxIsLast
  <2>3. j \in Nat /\ j \in Collected /\ Valid(j) /\ Message(j).url = Message(i).url
    BY <1>2
  <2>4. \A k \in (j + 1) .. batch.last : k \in Collected /\ ~(k <= j)
    BY <1>2, <2>3 DEF Collected
  <2>5. j \in Coalesced
    BY <2>2, <2>3, <2>4 DEF Coalesced
  <2> QED
    BY <2>1, <2>2, <2>3, <2>5
<1> QED
  BY <1>1, <1>3, <1>4, <1>5

LEMMA BatchNext ==
    ASSUME StreamInv, BatchInv, [Next]_vars
    PROVE  BatchInv'
<1>a. StreamInv' /\ Grows
  BY StreamNext
<1>b. /\ batch.first \in Nat \ {0} /\ batch.last \in Nat /\ updates.cursor \in Nat
      /\ Len(updates.entries) \in Nat
  BY BatchFacts
<1>c. batch' = batch => /\ Collected' = Collected /\ Upserts' = Upserts
                        /\ Deletes' = Deletes
  BY <1>a, CoalescedStays
<1>d. Upserts \subseteq Collected /\ Deletes \subseteq Collected
  BY DEF Upserts, Deletes, Coalesced
<1>e. updates \in [entries: Seq(Update \cup {Junk}), cursor: Nat, pending: SUBSET Nat]
  BY DEF StreamInv, StreamOf
<1>f. ASSUME updates'.cursor = updates.cursor, updates'.pending = updates.pending,
             batch' = batch
      PROVE  /\ batch' \in [first: Nat \ {0}, last: Nat]
             /\ Collected' # {} => batch'.last = updates'.cursor
             /\ Collected' \subseteq updates'.pending
  BY <1>c, <1>f DEF BatchInv
<1>1. CASE UNCHANGED vars
  BY <1>1, <1>c, <1>f DEF vars, volume, memory, BatchInv
<1>2. CASE \E update \in Update \cup {Junk} : Send(update)
  <2>1. updates'.cursor = updates.cursor /\ updates'.pending = updates.pending
    BY <1>2, <1>e DEF Send, Publish
  <2> QED
    BY <1>2, <2>1, <1>c, <1>f DEF Send, volume, memory, BatchInv
<1>3. CASE Open
  BY <1>3, <1>c, <1>f DEF Open, memory, BatchInv, Steps
<1>4. CASE RestoreFiles
  BY <1>4, <1>c, <1>f DEF RestoreFiles, memory, BatchInv, Steps
<1>5. CASE RestoreManifest
  BY <1>5, <1>c, <1>f DEF RestoreManifest, memory, BatchInv, Steps
<1>6. CASE Collect
  <2>1. PICK count \in {BatchSize, Room} :
           /\ count > 0 /\ updates' = Consume(updates, count)
           /\ batch' = [first |-> IF Collected = {} THEN updates.cursor + 1
                                                    ELSE batch.first,
                        last  |-> LastDelivered(updates, count)]
    BY <1>6, IndexerAssumption DEF Collect
  <2>2. count \in Nat /\ count > 0
    BY <2>1, <1>b, IndexerAssumption DEF Room
  <2> DEFINE l == LastDelivered(updates, count)
  <2>3. l \in Nat /\ updates.cursor < l
    BY <1>6, <1>b, <2>2 DEF Collect, HasNew, LastDelivered
  <2>4. /\ updates'.cursor = l
        /\ updates'.pending = updates.pending \cup ((updates.cursor + 1) .. l)
    BY <1>e, <2>1 DEF Consume
  <2>5. batch'.last = l
        /\ batch'.first = IF Collected = {} THEN updates.cursor + 1 ELSE batch.first
    BY <2>1
  <2>6. batch' \in [first: Nat \ {0}, last: Nat]
    BY <2>1, <2>3, <1>b
  <2> HIDE DEF l
  <2>7. Collected' \subseteq updates'.pending
    <3>1. ASSUME NEW i \in Collected' PROVE i \in updates'.pending
      <4>1. i \in batch'.first .. l
        BY <2>5 DEF Collected
      <4>2. CASE i \in Collected
        BY <4>2, <2>4 DEF BatchInv
      <4>3. CASE i \notin Collected
        <5>1. CASE Collected = {}
          BY <4>1, <2>5, <2>4, <5>1
        <5>2. CASE Collected # {}
          <6>1. batch.last = updates.cursor
            BY <5>2 DEF BatchInv
          <6>2. i \in batch.first .. l
            BY <4>1, <2>5, <5>2
          <6>3. ~(i <= batch.last)
            BY <4>3, <6>2, <1>b, <2>3 DEF Collected
          <6> QED
            BY <6>1, <6>2, <6>3, <1>b, <2>3, <2>4
        <5> QED
          BY <5>1, <5>2
      <4> QED
        BY <4>2, <4>3
    <3> QED
      BY <3>1
  <2> QED
    BY <1>6, <2>4, <2>5, <2>6, <2>7 DEF Collect, volume, memory, BatchInv, Steps
<1>7. CASE CloseBatch
  BY <1>7, <1>c, <1>d, <1>f DEF CloseBatch, volume, memory, BatchInv, Steps
<1>8. CASE PutText
  BY <1>8, <1>c, <1>f DEF PutText, volume, memory, BatchInv
<1>9. CASE AddDocuments
  BY <1>9, <1>c, <1>f DEF AddDocuments, memory, BatchInv, Steps
<1>10. CASE DeleteUrls
  BY <1>10, <1>c, <1>f DEF DeleteUrls, memory, BatchInv, Steps
<1>11. CASE MaybeMerge
  BY <1>11, <1>c, <1>f DEF MaybeMerge, memory, BatchInv, Steps
<1>12. CASE ListRemote
  BY <1>12, <1>c, <1>f DEF ListRemote, volume, BatchInv, Steps
<1>13. CASE Upload
  BY <1>13, <1>c, <1>f DEF Upload, volume, BatchInv, Steps
<1>14. CASE PutManifest
  BY <1>14, <1>c, <1>f DEF PutManifest, volume, memory, BatchInv, Steps
<1>15. CASE PutPointer
  BY <1>15, <1>c, <1>f DEF PutPointer, volume, memory, BatchInv, Steps
<1>16. CASE PutMarker
  BY <1>16, <1>c, <1>f DEF PutMarker, volume, memory, BatchInv, Steps
<1>17. CASE DeleteObsolete
  BY <1>17, <1>c, <1>f DEF DeleteObsolete, volume, memory, BatchInv, Steps
<1>18. CASE EndPublish
  BY <1>18, <1>c, <1>d, <1>f DEF EndPublish, volume, BatchInv, Steps
<1>19. CASE DeleteText
  BY <1>19, <1>c, <1>f DEF DeleteText, volume, memory, BatchInv
<1>20. CASE AckNext
  <2>1. /\ updates'.cursor = updates.cursor
        /\ updates'.pending = updates.pending \ {batch.first}
    BY <1>20, <1>e DEF AckNext, Ack
  <2>2. batch'.first = batch.first + 1 /\ batch'.last = batch.last
        /\ batch' \in [first: Nat \ {0}, last: Nat]
    BY <1>20, <1>b DEF AckNext, BatchInv
  <2>3. Collected' = Collected \ {batch.first}
    BY <2>2, <1>b DEF Collected
  <2>4. batch.first # batch.last => Collected' # {}
    <3>1. Collected # {}
      BY <1>20 DEF AckNext, BatchInv, Steps
    <3>2. batch.first <= batch.last
      BY <3>1, <1>b DEF Collected
    <3> QED
      BY <2>2, <3>2, <1>b DEF Collected
  <2> QED
    BY <1>20, <2>1, <2>2, <2>3, <2>4 DEF AckNext, volume, memory, BatchInv, Steps
<1>21. CASE Crash
  <2>1. batch' = [first |-> 1, last |-> 0] /\ todo' = {} /\ pc' = "open"
    BY <1>21 DEF Crash, EmptyBatch
  <2>2. Collected' = {} /\ batch' \in [first: Nat \ {0}, last: Nat]
    BY <2>1 DEF Collected
  <2>3. listed' \in BOOLEAN /\ disk' \in {"absent", "partial", "kept"}
    BY <1>21 DEF Crash, volume, BatchInv
  <2> QED
    BY <2>1, <2>2, <2>3 DEF BatchInv, Steps
<1>22. CASE LoseVolume
  BY <1>22, <1>c, <1>f DEF LoseVolume, memory, BatchInv
<1> QED
  BY <1>1, <1>2, <1>3, <1>4, <1>5, <1>6, <1>7, <1>8, <1>9, <1>10, <1>11,
     <1>12, <1>13, <1>14, <1>15, <1>16, <1>17, <1>18, <1>19, <1>20, <1>21,
     <1>22 DEF Next, Step

-----------------------------------------------------------------------------
(***************************************************************************)
(* The files.                                                              *)
(***************************************************************************)
\* What a file says stays true of a stream that grows.
LEMMA FilesStay ==
    ASSUME NEW s, NEW t, s.cursor \in Nat, t.cursor \in Nat, Len(s.entries) \in Nat,
           s.cursor <= Len(s.entries), GrowsTo(s, t)
    PROVE  /\ \A f : IsFile(s, f) => IsFile(t, f)
           /\ \A stored : AreFiles(s, stored) => AreFiles(t, stored)
           /\ \A v : IsVersion(s, v) => IsVersion(t, v)
           /\ \A index : IsIndex(s, index) => IsIndex(t, index)
<1>1. \A d, url : Brought(s, d, url) => Brought(t, d, url)
  <2> TAKE d, url
  <2>1. d \in 1 .. s.cursor => d \in 1 .. t.cursor /\ t.entries[d] = s.entries[d]
    BY DEF GrowsTo
  <2> QED
    BY <2>1 DEF Brought
<1>2. \A f : IsFile(s, f) => IsFile(t, f)
  BY <1>1 DEF IsFile
<1>3. \A stored : AreFiles(s, stored) => AreFiles(t, stored)
  BY <1>2 DEF AreFiles
<1> QED
  BY <1>2, <1>3 DEF IsVersion, IsIndex

LEMMA PutFiles ==
    ASSUME NEW s, NEW stored, AreFiles(s, stored), NEW name \in FileName,
           NEW file, IsFile(s, file)
    PROVE  AreFiles(s, PutObject(stored, name, file))
BY DEF AreFiles, PutObject

LEMMA DeleteFiles ==
    ASSUME NEW s, NEW stored, AreFiles(s, stored), NEW name
    PROVE  AreFiles(s, DeleteObject(stored, name))
BY DEF AreFiles, DeleteObject

LEMMA SomeFiles ==
    ASSUME NEW s, NEW stored, AreFiles(s, stored), NEW keys
    PROVE  /\ AreFiles(s, GetObjects(stored, keys))
           /\ DOMAIN GetObjects(stored, keys) = keys \cap DOMAIN stored
           /\ \A n \in keys \cap DOMAIN stored : GetObjects(stored, keys)[n] = stored[n]
BY DEF AreFiles, GetObjects

LEMMA NoFiles == \A s : AreFiles(s, NoObjects) /\ DOMAIN NoObjects = {}
BY DEF AreFiles, NoObjects

\* What an index says of a URL is a document that was brought.
LEMMA LiveIsBrought ==
    ASSUME NEW s, s.cursor \in Nat, NEW layers \in Seq(FileName), NEW files,
           AreFiles(s, files), NEW url
    PROVE  /\ LiveIn(layers, files, url) \in 0 .. s.cursor
           /\ LiveIn(layers, files, url) # Dead =>
                 Brought(s, LiveIn(layers, files, url), url)
<1> DEFINE doc == LiveIn(layers, files, url)
<1>1. doc = Dead \/ Brought(s, doc, url)
  <2>1. CASE About(layers, files, url) = {}
    BY <2>1, LiveIsLast
  <2>2. CASE About(layers, files, url) # {}
    <3>1. PICK k \in About(layers, files, url) :
             \A i \in About(layers, files, url) : i <= k
      BY <2>2, LiveIsLast
    <3>2. doc = files[layers[k]][url]
      BY <3>1, LiveIsLast
    <3>3. layers[k] \in DOMAIN files /\ url \in DOMAIN files[layers[k]]
      BY DEF About
    <3> QED
      BY <3>2, <3>3 DEF AreFiles, IsFile
  <2> QED
    BY <2>1, <2>2
<1> QED
  BY <1>1 DEF Brought, Dead

\* A new file is numbered as no other one.
LEMMA WithFileIsIndex ==
    ASSUME NEW s, NEW index, IsIndex(s, index), NEW dir \in {"seg", "deletes"},
           NEW file, IsFile(s, file)
    PROVE  /\ IsIndex(s, WithFile(index, dir, file))
           /\ WithFile(index, dir, file).next = index.next + 1
           /\ DOMAIN WithFile(index, dir, file).files
                 = DOMAIN index.files \cup {[dir |-> dir, number |-> index.next]}
           /\ \A n \in DOMAIN index.files :
                 WithFile(index, dir, file).files[n] = index.files[n]
           /\ \A url :
                 LiveIn(WithFile(index, dir, file).layers,
                        WithFile(index, dir, file).files, url)
                   = IF url \in DOMAIN file THEN file[url]
                     ELSE LiveIn(index.layers, index.files, url)
<1> DEFINE name == [dir |-> dir, number |-> index.next]
           new  == WithFile(index, dir, file)
<1>1. /\ index.layers \in Seq(FileName) /\ index.next \in Nat
      /\ AreFiles(s, index.files)
      /\ ToSet(index.layers) \subseteq DOMAIN index.files
      /\ \A n \in DOMAIN index.files : n.number < index.next /\ n \in FileName
  BY DEF IsIndex, FilesOf, AreFiles
<1>2. name \in FileName /\ name.number = index.next
  BY <1>1 DEF FileName
<1>3. name \notin DOMAIN index.files /\ name \notin ToSet(index.layers)
  BY <1>1, <1>2
<1>4. /\ new = [layers |-> new.layers, next |-> new.next, files |-> new.files]
      /\ new.layers = Append(index.layers, name)
      /\ new.next = index.next + 1
      /\ new.files = PutObject(index.files, name, file)
  BY DEF WithFile
<1> HIDE DEF new, name
<1>5. /\ new.layers \in Seq(FileName)
      /\ DOMAIN new.layers = 1 .. (Len(index.layers) + 1)
      /\ \A i \in 1 .. Len(index.layers) : new.layers[i] = index.layers[i]
      /\ new.layers[Len(index.layers) + 1] = name
  BY <1>1, <1>2, <1>4
<1>6. ToSet(new.layers) \subseteq ToSet(index.layers) \cup {name}
  <2>1. DOMAIN index.layers = 1 .. Len(index.layers) /\ Len(index.layers) \in Nat
    BY <1>1
  <2>2. \A i \in 1 .. (Len(index.layers) + 1) :
           i \in 1 .. Len(index.layers) \/ i = Len(index.layers) + 1
    BY <2>1
  <2> QED
    BY <1>5, <2>1, <2>2 DEF ToSet
<1>7. /\ DOMAIN new.files = DOMAIN index.files \cup {name}
      /\ \A n \in DOMAIN index.files : new.files[n] = index.files[n]
  BY <1>3, <1>4 DEF PutObject
<1>8. AreFiles(s, new.files)
  BY <1>1, <1>2, <1>4, PutFiles
<1>9. \A n \in DOMAIN new.files : n.number < new.next
  <2>1. \A n \in DOMAIN index.files : n.number \in Nat
    BY <1>1 DEF FileName
  <2> QED
    BY <1>1, <1>2, <1>4, <1>7, <2>1
<1>10. IsIndex(s, new)
  BY <1>1, <1>4, <1>5, <1>6, <1>7, <1>8, <1>9 DEF IsIndex, FilesOf
<1>11. \A url : LiveIn(new.layers, new.files, url)
                   = IF url \in DOMAIN file THEN file[url]
                     ELSE LiveIn(index.layers, index.files, url)
  BY <1>1, <1>2, <1>3, <1>4, LiveWithFile
<1> QED
  BY <1>4, <1>7, <1>10, <1>11 DEF new, name

\* A merge leaves what the index says as it is.
LEMMA MergedIsIndex ==
    ASSUME NEW s, s.cursor \in Nat, NEW index, IsIndex(s, index)
    PROVE  /\ IsIndex(s, Merged(index, Url))
           /\ Merged(index, Url).next = index.next + 1
           /\ DOMAIN Merged(index, Url).files = {[dir |-> "seg", number |-> index.next]}
           /\ \A url \in Url :
                 LiveIn(Merged(index, Url).layers, Merged(index, Url).files, url)
                   = LiveIn(index.layers, index.files, url)
<1> DEFINE Doc(url) == LiveIn(index.layers, index.files, url)
           live == {url \in Url : Doc(url) # Dead}
           file == [url \in live |-> Doc(url)]
           base == [layers |-> <<>>, next |-> index.next, files |-> NoObjects]
<1>1. /\ index.layers \in Seq(FileName) /\ index.next \in Nat
      /\ AreFiles(s, index.files)
      /\ index = [layers |-> index.layers, next |-> index.next, files |-> index.files]
  BY DEF IsIndex
<1>2. \A url : Doc(url) # Dead => Brought(s, Doc(url), url)
  BY <1>1, LiveIsBrought
<1>3. IsFile(s, file)
  <2> HIDE DEF Doc
  <2> QED
    BY <1>2 DEF IsFile
<1>11. DOMAIN file = live
  OBVIOUS
<1>5. IsIndex(s, base) /\ base.next = index.next /\ base.files = NoObjects
      /\ base.layers = <<>>
  <2>1. /\ base.layers = <<>> /\ base.next = index.next /\ base.files = NoObjects
        /\ base = [layers |-> base.layers, next |-> base.next, files |-> base.files]
    OBVIOUS
  <2> HIDE DEF base
  <2>2. <<>> \in Seq(FileName) /\ ToSet(<<>>) = {}
    BY DEF ToSet
  <2> QED
    BY <1>1, <2>1, <2>2, NoFiles DEF IsIndex, FilesOf
<1>6. Merged(index, Url) = WithFile(base, "seg", file)
  BY DEF Merged
<1>7. \A url : LiveIn(base.layers, base.files, url) = Dead
  BY <1>5 DEF LiveIn
<1> HIDE DEF base, file, Doc
<1>8. /\ IsIndex(s, Merged(index, Url))
      /\ Merged(index, Url).next = index.next + 1
      /\ DOMAIN Merged(index, Url).files
            = DOMAIN NoObjects \cup {[dir |-> "seg", number |-> index.next]}
      /\ \A url : LiveIn(Merged(index, Url).layers, Merged(index, Url).files, url)
                    = IF url \in DOMAIN file THEN file[url]
                      ELSE LiveIn(base.layers, base.files, url)
  <2>1. \E dir \in {"seg", "deletes"} : dir = "seg"
    OBVIOUS
  <2> DEFINE new == WithFile(base, "seg", file)
  <2>2. /\ IsIndex(s, new) /\ new.next = base.next + 1
        /\ DOMAIN new.files = DOMAIN base.files \cup {[dir |-> "seg", number |-> base.next]}
        /\ \A url : LiveIn(new.layers, new.files, url)
                      = IF url \in DOMAIN file THEN file[url]
                        ELSE LiveIn(base.layers, base.files, url)
    BY <1>3, <1>5, <2>1, WithFileIsIndex
  <2> QED
    BY <1>5, <1>6, <2>2
<1>9. \A url \in Url : url \in live => file[url] = Doc(url)
  BY DEF file
<1>10. \A url \in Url : LiveIn(Merged(index, Url).layers, Merged(index, Url).files, url)
                          = Doc(url)
  BY <1>11, <1>7, <1>8, <1>9
<1> QED
  BY <1>8, <1>10, NoFiles DEF Doc

\* What the batch adds is the documents it brought.
LEMMA UpsertFacts ==
    ASSUME StreamInv, BatchInv
    PROVE  /\ \A i \in Coalesced : Message(i) \in Update
           /\ \A i \in Upserts : Brought(updates, i, Message(i).url)
           /\ \A i \in Upserts : UpsertOf(Message(i).url) = i
           /\ IsFile(updates, [url \in UrlsOf(Upserts) |-> UpsertOf(url)])
<1>1. \A i \in Coalesced : Message(i) \in Update
  BY BatchFacts, CoalescedFacts DEF Valid
<1>2. \A i \in Upserts : Brought(updates, i, Message(i).url)
  <2>1. \A i \in Upserts : i \in Coalesced /\ Message(i).doc
    BY DEF Upserts
  <2>2. \A i \in Upserts : i \in 1 .. updates.cursor /\ Valid(i)
    BY <2>1, CoalescedFacts, BatchFacts
  <2> QED
    BY <2>1, <2>2 DEF Brought, Message, Valid
<1>3. \A i \in Upserts : UpsertOf(Message(i).url) = i
  <2>1. \A i, j \in Upserts : Message(i).url = Message(j).url => i = j
    BY CoalescedFacts DEF Upserts
  <2> QED
    BY <2>1 DEF UpsertOf
<1>4. \A i \in Upserts : Message(i).url \in Url
  BY <1>1 DEF Upserts, Update
<1>5. IsFile(updates, [url \in UrlsOf(Upserts) |-> UpsertOf(url)])
  <2> DEFINE f == [url \in UrlsOf(Upserts) |-> UpsertOf(url)]
  <2>1. \A url \in UrlsOf(Upserts) : \E i \in Upserts : url = Message(i).url
    BY DEF UrlsOf
  <2>2. \A url \in UrlsOf(Upserts) : url \in Url /\ Brought(updates, UpsertOf(url), url)
    BY <2>1, <1>2, <1>3, <1>4
  <2>3. f = [url \in DOMAIN f |-> f[url]] /\ DOMAIN f = UrlsOf(Upserts)
        /\ \A url \in UrlsOf(Upserts) : f[url] = UpsertOf(url)
    OBVIOUS
  <2> QED
    BY <2>2, <2>3 DEF IsFile
<1> QED
  BY <1>1, <1>2, <1>3, <1>5

\* The deletions of the batch are about URLs.
LEMMA DeletedAreUrls ==
    ASSUME StreamInv, BatchInv
    PROVE  UrlsOf(Deletes) \subseteq Url
BY UpsertFacts DEF UrlsOf, Deletes, Update

LEMMA FileNext ==
    ASSUME StreamInv, BatchInv, FileInv, SnapshotInv, [Next]_vars
    PROVE  FileInv'
<1>a. StreamInv' /\ GrowsTo(updates, updates')
  BY StreamNext DEF Grows
<1>b. /\ updates.cursor \in Nat /\ Len(updates.entries) \in Nat
      /\ updates.cursor <= Len(updates.entries) /\ updates'.cursor \in Nat
  BY <1>a, BatchFacts DEF StreamInv, StreamOf
<1>c. /\ IsIndex(updates', local) /\ AreFiles(updates', remote)
      /\ IsVersion(updates', pointer) /\ IsManifest(manifest)
  BY <1>a, <1>b, FilesStay DEF FileInv
<1>d. IsIndex(updates, local) /\ AreFiles(updates, remote) /\ IsManifest(manifest)
  BY DEF FileInv
<1>e. /\ local.layers \in Seq(FileName) /\ local.next \in Nat
      /\ AreFiles(updates, local.files) /\ AreFiles(updates', local.files)
      /\ ToSet(local.layers) \subseteq DOMAIN local.files
      /\ \A n \in DOMAIN local.files : n.number < local.next
  BY <1>c, <1>d DEF IsIndex, FilesOf
<1>f. updates' = updates => IsVersion(updates', VersionOf(local))
                            /\ IsManifest(ManifestOf(local))
  <2> DEFINE v == VersionOf(local)
             m == ManifestOf(local)
  <2>1. IsManifest(m)
    BY <1>e DEF ManifestOf, IsManifest
  <2>2. v.manifest = m /\ v.files = GetObjects(local.files, ToSet(local.layers))
        /\ v = [manifest |-> v.manifest, files |-> v.files] /\ m.layers = local.layers
    BY DEF VersionOf, ManifestOf, FilesOf
  <2> HIDE DEF v, m
  <2> DEFINE files == GetObjects(local.files, ToSet(local.layers))
  <2>4. AreFiles(updates', files)
        /\ DOMAIN files = ToSet(local.layers) \cap DOMAIN local.files
    BY <1>e, SomeFiles
  <2> HIDE DEF files
  <2>3. AreFiles(updates', v.files) /\ DOMAIN v.files = ToSet(m.layers)
    <3>1. v.files = files
      BY <2>2 DEF files
    <3>2. DOMAIN files = ToSet(m.layers)
      BY <2>2, <2>4, <1>e
    <3> QED
      BY <2>4, <3>1, <3>2
  <2> QED
    BY <2>1, <2>2, <2>3 DEF IsVersion, v, m
<1>g. CASE UNCHANGED <<local, manifest, remote, pointer>>
  BY <1>c, <1>g DEF FileInv
<1>1. CASE UNCHANGED vars
  BY <1>1, <1>g DEF vars, storage, volume
<1>2. CASE \E update \in Update \cup {Junk} : Send(update)
  BY <1>2, <1>g DEF Send, storage, volume
<1>3. CASE Open
  BY <1>3, <1>g DEF Open, storage
<1>4. CASE RestoreFiles
  <2> DEFINE files == GetObjects(remote, ToSet(manifest.layers))
  <2>1. /\ local' = [layers |-> manifest.layers, next |-> manifest.next, files |-> files]
        /\ UNCHANGED <<manifest, remote, pointer>>
    BY <1>4 DEF RestoreFiles, storage
  <2>2. AreFiles(updates', files) /\ DOMAIN files = ToSet(manifest.layers)
    BY <1>c, SomeFiles DEF SnapshotInv, PublishedIsComplete
  <2> HIDE DEF files
  <2>3. IsIndex(updates', local')
    BY <2>1, <2>2, <1>c DEF IsIndex, IsManifest, FilesOf
  <2> QED
    BY <2>1, <2>3, <1>c DEF FileInv
<1>5. CASE RestoreManifest
  BY <1>5, <1>g DEF RestoreManifest, storage
<1>6. CASE Collect
  BY <1>6, <1>g DEF Collect, storage, volume
<1>7. CASE CloseBatch
  BY <1>7, <1>g DEF CloseBatch, storage, volume
<1>8. CASE PutText
  BY <1>8, <1>g DEF PutText, volume
<1>9. CASE AddDocuments
  <2>1. updates' = updates /\ UNCHANGED <<manifest, remote, pointer>>
    BY <1>9 DEF AddDocuments, storage
  <2>2. CASE local' = local
    BY <2>1, <2>2, <1>g
  <2>3. CASE local' = WithFile(local, "seg", [url \in UrlsOf(Upserts) |-> UpsertOf(url)])
    <3>1. \E dir \in {"seg", "deletes"} : dir = "seg"
      OBVIOUS
    <3>2. IsIndex(updates, local')
      BY <2>3, <3>1, <1>d, UpsertFacts, WithFileIsIndex
    <3> QED
      BY <2>1, <3>2, <1>c DEF FileInv
  <2> QED
    BY <1>9, <2>2, <2>3 DEF AddDocuments
<1>10. CASE DeleteUrls
  <2>1. updates' = updates /\ UNCHANGED <<manifest, remote, pointer>>
    BY <1>10 DEF DeleteUrls, storage
  <2>2. CASE local' = local
    BY <2>1, <2>2, <1>g
  <2>3. ASSUME NEW dead \in SUBSET UrlsOf(Deletes),
               local' = WithFile(local, "deletes", [url \in dead |-> Dead])
        PROVE  FileInv'
    <3>1. IsFile(updates, [url \in dead |-> Dead])
      BY DeletedAreUrls DEF IsFile
    <3>2. \E dir \in {"seg", "deletes"} : dir = "deletes"
      OBVIOUS
    <3>3. IsIndex(updates, local')
      BY <2>3, <3>1, <3>2, <1>d, WithFileIsIndex
    <3> QED
      BY <2>1, <3>3, <1>c DEF FileInv
  <2> QED
    BY <1>10, <2>2, <2>3 DEF DeleteUrls
<1>11. CASE MaybeMerge
  <2>1. updates' = updates /\ UNCHANGED <<manifest, remote, pointer>>
    BY <1>11 DEF MaybeMerge, storage
  <2>2. CASE local' = local
    BY <2>1, <2>2, <1>g
  <2>3. CASE local' = Merged(local, Url)
    <3>1. IsIndex(updates, local')
      BY <2>3, <1>b, <1>d, MergedIsIndex
    <3> QED
      BY <2>1, <3>1, <1>c DEF FileInv
  <2> QED
    BY <1>11, <2>2, <2>3 DEF MaybeMerge
<1>12. CASE ListRemote
  BY <1>12, <1>g DEF ListRemote, storage, volume
<1>13. CASE Upload
  <2>1. PICK n \in Missing : remote' = PutObject(remote, n, local.files[n])
    BY <1>13 DEF Upload
  <2>2. updates' = updates /\ UNCHANGED <<local, manifest, pointer>>
    BY <1>13 DEF Upload, volume
  <2>3. n \in DOMAIN local.files
    BY <1>e DEF Missing, FilesOf
  <2>4. n \in FileName /\ IsFile(updates', local.files[n])
    BY <2>3, <1>e DEF AreFiles
  <2>5. AreFiles(updates', remote')
    BY <2>1, <2>4, <1>c, PutFiles
  <2> QED
    BY <2>2, <2>5, <1>c DEF FileInv
<1>14. CASE PutManifest
  <2>1. updates' = updates /\ UNCHANGED <<local, remote, pointer>>
        /\ manifest' = ManifestOf(local)
    BY <1>14 DEF PutManifest, volume
  <2> QED
    BY <2>1, <1>c, <1>f DEF FileInv
<1>15. CASE PutPointer
  <2>1. updates' = updates /\ UNCHANGED <<local, remote, manifest>>
        /\ pointer' = VersionOf(local)
    BY <1>15 DEF PutPointer, volume
  <2> QED
    BY <2>1, <1>c, <1>f DEF FileInv
<1>16. CASE PutMarker
  BY <1>16, <1>g DEF PutMarker, volume
<1>17. CASE DeleteObsolete
  <2>1. PICK n \in Obsolete : remote' = DeleteObject(remote, n)
    BY <1>17 DEF DeleteObsolete
  <2>2. updates' = updates /\ UNCHANGED <<local, manifest, pointer>>
    BY <1>17 DEF DeleteObsolete, volume
  <2>3. AreFiles(updates', remote')
    BY <2>1, <1>c, DeleteFiles
  <2> QED
    BY <2>2, <2>3, <1>c DEF FileInv
<1>18. CASE EndPublish
  BY <1>18, <1>g DEF EndPublish, storage, volume
<1>19. CASE DeleteText
  BY <1>19, <1>g DEF DeleteText, volume
<1>20. CASE AckNext
  BY <1>20, <1>g DEF AckNext, storage, volume
<1>21. CASE Crash
  BY <1>21, <1>g DEF Crash, storage, volume
<1>22. CASE LoseVolume
  <2>1. updates' = updates /\ UNCHANGED <<remote, manifest, pointer>>
        /\ local' = [layers |-> <<>>, next |-> 1, files |-> NoObjects]
    BY <1>22 DEF LoseVolume, storage, EmptyIndex
  <2>2. <<>> \in Seq(FileName) /\ ToSet(<<>>) = {}
    BY DEF ToSet
  <2>3. IsIndex(updates', local')
    BY <2>1, <2>2, NoFiles DEF IsIndex, FilesOf
  <2> QED
    BY <2>1, <2>3, <1>c DEF FileInv
<1> QED
  BY <1>1, <1>2, <1>3, <1>4, <1>5, <1>6, <1>7, <1>8, <1>9, <1>10, <1>11,
     <1>12, <1>13, <1>14, <1>15, <1>16, <1>17, <1>18, <1>19, <1>20, <1>21,
     <1>22 DEF Next, Step

-----------------------------------------------------------------------------
(***************************************************************************)
(* A process that keeps its volume gives no name to two files.             *)
(***************************************************************************)
LEMMA LossesCount ==
    ASSUME losses \in Nat, [Next]_vars
    PROVE  losses' \in Nat /\ (losses' = 0 => losses = 0 /\ ~LoseVolume)
<1>1. CASE LoseVolume
  BY <1>1 DEF LoseVolume
<1>2. CASE \E update \in Update \cup {Junk} : Send(update)
  BY <1>2 DEF Send, history, LoseVolume
<1>3. CASE Crash
  BY <1>3 DEF Crash, LoseVolume
<1>4. CASE UNCHANGED vars
  BY <1>4 DEF vars, history, LoseVolume
<1>5. CASE Open \/ RestoreFiles \/ RestoreManifest \/ Collect \/ CloseBatch
  BY <1>5 DEF Open, RestoreFiles, RestoreManifest, Collect, CloseBatch, history, LoseVolume
<1>6. CASE PutText \/ AddDocuments \/ DeleteUrls \/ MaybeMerge \/ ListRemote
  BY <1>6 DEF PutText, AddDocuments, DeleteUrls, MaybeMerge, ListRemote, history,
              LoseVolume
<1>7. CASE Upload \/ PutManifest \/ PutPointer \/ PutMarker \/ DeleteObsolete
  BY <1>7 DEF Upload, PutManifest, PutPointer, PutMarker, DeleteObsolete, history,
              LoseVolume
<1>8. CASE EndPublish \/ DeleteText \/ AckNext
  BY <1>8 DEF EndPublish, DeleteText, AckNext, history, LoseVolume
<1> QED
  BY <1>1, <1>2, <1>3, <1>4, <1>5, <1>6, <1>7, <1>8 DEF Next, Step

\* A new file has a name nothing had.
LEMMA MadeWithFile ==
    ASSUME NEW s, NEW index, IsIndex(s, index), NEW new, NEW dir, NEW stored, NEW files,
           IsMade(index, stored, files), AreFiles(s, files),
           new.next = index.next + 1,
           \A n \in DOMAIN new.files :
              \/ n \in DOMAIN index.files /\ new.files[n] = index.files[n]
              \/ n = [dir |-> dir, number |-> index.next]
    PROVE  IsMade(new, stored, files)
<1>1. index.next \in Nat /\ \A n \in DOMAIN files : n.number \in Nat
  BY DEF IsIndex, AreFiles, FileName
<1>2. \A n \in DOMAIN files : n.number < new.next
                              /\ n # [dir |-> dir, number |-> index.next]
  BY <1>1 DEF IsMade
<1> QED
  BY <1>2 DEF IsMade

\* The steps that write the index add a file of the next number, and the
\* others leave it; merging drops the old ones.
LEMMA LocalSteps ==
    ASSUME StreamInv, BatchInv, FileInv, [Next]_vars,
           ~RestoreFiles, ~LoseVolume, local' # local
    PROVE  /\ AddDocuments \/ DeleteUrls \/ MaybeMerge
           /\ local'.next = local.next + 1
           /\ \E dir : \A n \in DOMAIN local'.files :
                 \/ n \in DOMAIN local.files /\ local'.files[n] = local.files[n]
                 \/ n = [dir |-> dir, number |-> local.next]
<1>d. IsIndex(updates, local) /\ updates.cursor \in Nat
  BY BatchFacts DEF FileInv
<1>1. AddDocuments \/ DeleteUrls \/ MaybeMerge
  <2>1. CASE \E update \in Update \cup {Junk} : Send(update)
    BY <2>1 DEF Send, volume
  <2>2. CASE UNCHANGED vars
    BY <2>2 DEF vars, volume
  <2>3. CASE Open \/ RestoreManifest \/ Collect \/ CloseBatch \/ PutText \/ ListRemote
    BY <2>3 DEF Open, RestoreManifest, Collect, CloseBatch, PutText, ListRemote, volume
  <2>4. CASE Upload \/ PutManifest \/ PutPointer \/ PutMarker \/ DeleteObsolete
    BY <2>4 DEF Upload, PutManifest, PutPointer, PutMarker, DeleteObsolete, volume
  <2>5. CASE EndPublish \/ DeleteText \/ AckNext \/ Crash
    BY <2>5 DEF EndPublish, DeleteText, AckNext, Crash, volume
  <2> QED
    BY <2>1, <2>2, <2>3, <2>4, <2>5 DEF Next, Step
<1>2. ASSUME NEW dir \in {"seg", "deletes"}, NEW f, IsFile(updates, f),
             local' = WithFile(local, dir, f)
      PROVE  /\ local'.next = local.next + 1
             /\ \E d : \A n \in DOMAIN local'.files :
                 \/ n \in DOMAIN local.files /\ local'.files[n] = local.files[n]
                 \/ n = [dir |-> d, number |-> local.next]
  <2>1. /\ local'.next = local.next + 1
        /\ DOMAIN local'.files
              = DOMAIN local.files \cup {[dir |-> dir, number |-> local.next]}
        /\ \A n \in DOMAIN local.files : local'.files[n] = local.files[n]
    BY <1>2, <1>d, WithFileIsIndex
  <2> QED
    BY <2>1
<1>3. CASE AddDocuments
  <2>1. local' = WithFile(local, "seg", [url \in UrlsOf(Upserts) |-> UpsertOf(url)])
    BY <1>3 DEF AddDocuments
  <2>2. \E dir \in {"seg", "deletes"} : dir = "seg"
    OBVIOUS
  <2> QED
    BY <1>1, <1>2, <2>1, <2>2, UpsertFacts
<1>4. CASE DeleteUrls
  <2>1. PICK dead \in SUBSET UrlsOf(Deletes) :
           local' = WithFile(local, "deletes", [url \in dead |-> Dead])
    BY <1>4 DEF DeleteUrls
  <2>2. \E dir \in {"seg", "deletes"} : dir = "deletes"
    OBVIOUS
  <2>3. IsFile(updates, [url \in dead |-> Dead])
    BY DeletedAreUrls DEF IsFile
  <2> QED
    BY <1>1, <1>2, <2>1, <2>2, <2>3
<1>5. CASE MaybeMerge
  <2>1. local' = Merged(local, Url)
    BY <1>5 DEF MaybeMerge
  <2>2. /\ local'.next = local.next + 1
        /\ DOMAIN local'.files = {[dir |-> "seg", number |-> local.next]}
    BY <2>1, <1>d, MergedIsIndex
  <2> QED
    BY <1>1, <2>2
<1> QED
  BY <1>1, <1>3, <1>4, <1>5

LEMMA RemoteSteps ==
    ASSUME [Next]_vars, remote' # remote
    PROVE  Upload \/ DeleteObsolete
<1>1. CASE \E update \in Update \cup {Junk} : Send(update)
  BY <1>1 DEF Send, storage
<1>2. CASE UNCHANGED vars
  BY <1>2 DEF vars, storage
<1>3. CASE Open \/ RestoreFiles \/ RestoreManifest \/ Collect \/ CloseBatch
  BY <1>3 DEF Open, RestoreFiles, RestoreManifest, Collect, CloseBatch, storage
<1>4. CASE PutText \/ AddDocuments \/ DeleteUrls \/ MaybeMerge \/ ListRemote
  BY <1>4 DEF PutText, AddDocuments, DeleteUrls, MaybeMerge, ListRemote, storage
<1>5. CASE PutManifest \/ PutPointer \/ PutMarker
  BY <1>5 DEF PutManifest, PutPointer, PutMarker
<1>6. CASE EndPublish \/ DeleteText \/ AckNext \/ Crash \/ LoseVolume
  BY <1>6 DEF EndPublish, DeleteText, AckNext, Crash, LoseVolume, storage
<1> QED
  BY <1>1, <1>2, <1>3, <1>4, <1>5, <1>6 DEF Next, Step

\* Files of a snapshot stay what they were made as.
LEMMA MadeNext ==
    ASSUME StreamInv, BatchInv, FileInv, KeptInv, [Next]_vars, ~LoseVolume
    PROVE  /\ \A files : AreFiles(updates, files) /\ IsMade(local, remote, files)
                            => IsMade(local', remote', files)
           /\ IsMade(local', remote', remote')
           /\ ~RestoreFiles
<1>a. IsIndex(updates, local) /\ AreFiles(updates, remote) /\ IsMade(local, remote, remote)
  BY DEF FileInv, KeptInv
<1>1. ~RestoreFiles
  BY DEF KeptInv, RestoreFiles
<1>2. \A files, stored : AreFiles(updates, files) /\ IsMade(local, stored, files)
                            => IsMade(local', stored, files)
  <2>1. CASE local' = local
    BY <2>1
  <2>2. CASE local' # local
    BY <2>2, <1>1, <1>a, LocalSteps, MadeWithFile
  <2> QED
    BY <2>1, <2>2
<1>3. CASE remote' = remote
  BY <1>1, <1>2, <1>3, <1>a
<1>4. CASE Upload
  <2>1. PICK n \in Missing : remote' = PutObject(remote, n, local.files[n])
    BY <1>4 DEF Upload
  <2>2. local' = local
    BY <1>4 DEF Upload, volume
  <2>3. n \in DOMAIN local.files /\ n.number < local.next
    BY <1>a DEF Missing, IsIndex
  <2>4. /\ DOMAIN remote' = DOMAIN remote \cup {n} /\ remote'[n] = local.files[n]
        /\ \A m \in DOMAIN remote : m # n => remote'[m] = remote[m]
    BY <2>1 DEF PutObject
  <2>5. \A files : IsMade(local, remote, files) => IsMade(local', remote', files)
    BY <2>2, <2>3, <2>4 DEF IsMade
  <2>6. IsMade(local', remote', remote')
    BY <2>2, <2>3, <2>4, <1>a DEF IsMade
  <2> QED
    BY <2>5, <2>6, <1>1
<1>5. CASE DeleteObsolete
  <2>1. PICK n \in Obsolete : remote' = DeleteObject(remote, n)
    BY <1>5 DEF DeleteObsolete
  <2>2. local' = local
    BY <1>5 DEF DeleteObsolete, volume
  <2>3. /\ DOMAIN remote' = DOMAIN remote \ {n}
        /\ \A m \in DOMAIN remote : m # n => remote'[m] = remote[m]
    BY <2>1 DEF DeleteObject
  <2>4. \A files : IsMade(local, remote, files) => IsMade(local', remote', files)
    BY <2>2, <2>3 DEF IsMade
  <2>5. IsMade(local', remote', remote')
    BY <2>2, <2>3, <1>a DEF IsMade
  <2> QED
    BY <2>4, <2>5, <1>1
<1> QED
  BY <1>3, <1>4, <1>5, RemoteSteps

LEMMA VersionIsMade ==
    ASSUME FileInv, KeptInv
    PROVE  /\ IsMade(local, remote, VersionOf(local).files)
           /\ DOMAIN VersionOf(local).files = FilesOf(local)
           /\ VersionOf(local).manifest = ManifestOf(local)
           /\ \A n \in FilesOf(local) : VersionOf(local).files[n] = local.files[n]
<1>1. /\ FilesOf(local) \subseteq DOMAIN local.files
      /\ \A n \in DOMAIN local.files : n.number < local.next
      /\ AreFiles(updates, local.files)
  BY DEF FileInv, IsIndex
<1>2. VersionOf(local).files = GetObjects(local.files, FilesOf(local))
      /\ VersionOf(local).manifest = ManifestOf(local)
  BY DEF VersionOf
<1>3. /\ DOMAIN GetObjects(local.files, FilesOf(local)) = FilesOf(local)
      /\ \A n \in FilesOf(local) :
            GetObjects(local.files, FilesOf(local))[n] = local.files[n]
  <2> DEFINE keys == FilesOf(local)
             all  == local.files
  <2>1. keys \subseteq DOMAIN all
    BY <1>1
  <2> HIDE DEF keys, all
  <2>2. DOMAIN GetObjects(all, keys) = keys
        /\ \A n \in keys : GetObjects(all, keys)[n] = all[n]
    BY <2>1 DEF GetObjects
  <2> QED
    BY <2>2 DEF keys, all
<1>4. \A n \in DOMAIN remote : n \in DOMAIN local.files => remote[n] = local.files[n]
  BY DEF KeptInv, IsMade
<1>5. IsMade(local, remote, GetObjects(local.files, FilesOf(local)))
  BY <1>1, <1>3, <1>4 DEF IsMade
<1> QED
  BY <1>2, <1>3, <1>5

\* pointer changes only by PutPointer.
LEMMA PointerSteps ==
    ASSUME [Next]_vars, pointer' # pointer
    PROVE  PutPointer
<1>1. CASE \E update \in Update \cup {Junk} : Send(update)
  BY <1>1 DEF Send, storage
<1>2. CASE UNCHANGED vars
  BY <1>2 DEF vars, storage
<1>3. CASE Open \/ RestoreFiles \/ RestoreManifest \/ Collect \/ CloseBatch
  BY <1>3 DEF Open, RestoreFiles, RestoreManifest, Collect, CloseBatch, storage
<1>4. CASE PutText \/ AddDocuments \/ DeleteUrls \/ MaybeMerge \/ ListRemote
  BY <1>4 DEF PutText, AddDocuments, DeleteUrls, MaybeMerge, ListRemote, storage
<1>5. CASE Upload \/ PutManifest \/ PutMarker \/ DeleteObsolete
  BY <1>5 DEF Upload, PutManifest, PutMarker, DeleteObsolete
<1>6. CASE EndPublish \/ DeleteText \/ AckNext \/ Crash \/ LoseVolume
  BY <1>6 DEF EndPublish, DeleteText, AckNext, Crash, LoseVolume, storage
<1> QED
  BY <1>1, <1>2, <1>3, <1>4, <1>5, <1>6 DEF Next, Step

\* An empty volume is the first one, and a process that is up has opened its own.
LEMMA DiskNext ==
    ASSUME BatchInv, KeptInv, [Next]_vars, ~LoseVolume
    PROVE  /\ disk' # "kept" =>
                 /\ pc' = "open" /\ manifest' = NoManifest
                 /\ remote' = NoObjects /\ local' = EmptyIndex
           /\ pc' # "restore"
<1> USE DEF KeptInv
<1>1. CASE \E update \in Update \cup {Junk} : Send(update)
  BY <1>1 DEF Send, storage, volume
<1>2. CASE UNCHANGED vars
  BY <1>2 DEF vars, storage, volume
<1>3. CASE Open \/ RestoreFiles \/ RestoreManifest
  BY <1>3 DEF Open, RestoreFiles, RestoreManifest
<1>4. CASE Collect \/ CloseBatch \/ ListRemote \/ EndPublish \/ AckNext
  BY <1>4 DEF Collect, CloseBatch, ListRemote, EndPublish, AckNext, storage, volume
<1>5. CASE PutText \/ Upload \/ PutManifest \/ PutPointer \/ PutMarker
  BY <1>5 DEF PutText, Upload, PutManifest, PutPointer, PutMarker, volume
<1>6. CASE DeleteObsolete \/ DeleteText
  BY <1>6 DEF DeleteObsolete, DeleteText, volume
<1>7. CASE AddDocuments \/ DeleteUrls \/ MaybeMerge
  BY <1>7 DEF AddDocuments, DeleteUrls, MaybeMerge
<1>8. CASE Crash
  BY <1>8 DEF Crash, storage, volume
<1> QED
  BY <1>1, <1>2, <1>3, <1>4, <1>5, <1>6, <1>7, <1>8 DEF Next, Step

LEMMA KeptNext ==
    ASSUME StreamInv, BatchInv, FileInv, KeptInv, [Next]_vars, ~LoseVolume
    PROVE  KeptInv'
<1>1. IsMade(local', remote', pointer'.files)
  <2>1. CASE pointer' = pointer
    BY <2>1, MadeNext DEF KeptInv, FileInv, IsVersion
  <2>2. CASE PutPointer
    BY <2>2, VersionIsMade DEF PutPointer, volume
  <2> QED
    BY <2>1, <2>2, PointerSteps
<1> QED
  BY <1>1, MadeNext, DiskNext DEF KeptInv

-----------------------------------------------------------------------------
(***************************************************************************)
(* What has been applied.                                                  *)
(***************************************************************************)
\* Where the steps of a process go.
LEMMA StepsGo ==
    ASSUME [Next]_vars
    PROVE  /\ pc' = "delete" => AddDocuments \/ (pc = "delete" /\ local' = local
                                                               /\ batch' = batch)
           /\ pc' \in AfterApply => DeleteUrls \/ pc \in AfterApply
           /\ pc' \in AfterCommit =>
                 PutManifest \/ (pc \in AfterCommit /\ local' = local
                                                    /\ manifest' = manifest)
           /\ batch' = batch \/ Collect \/ AckNext \/ Crash
           /\ manifest' = manifest \/ PutManifest
<1> USE DEF AfterApply, AfterCommit
<1>1. CASE \E update \in Update \cup {Junk} : Send(update)
  BY <1>1 DEF Send, storage, volume
<1>2. CASE UNCHANGED vars
  BY <1>2 DEF vars, storage, volume
<1>3. CASE Open \/ RestoreFiles \/ RestoreManifest \/ LoseVolume
  BY <1>3 DEF Open, RestoreFiles, RestoreManifest, LoseVolume, storage
<1>4. CASE Collect \/ CloseBatch \/ ListRemote \/ EndPublish \/ AckNext
  BY <1>4 DEF Collect, CloseBatch, ListRemote, EndPublish, AckNext, storage, volume
<1>5. CASE PutText \/ Upload \/ PutManifest \/ PutPointer \/ PutMarker
  BY <1>5 DEF PutText, Upload, PutManifest, PutPointer, PutMarker, volume
<1>6. CASE DeleteObsolete \/ DeleteText
  BY <1>6 DEF DeleteObsolete, DeleteText, volume
<1>7. CASE AddDocuments \/ DeleteUrls \/ MaybeMerge
  BY <1>7 DEF AddDocuments, DeleteUrls, MaybeMerge, storage
<1>8. CASE Crash
  BY <1>8 DEF Crash, storage, volume
<1> QED
  BY <1>1, <1>2, <1>3, <1>4, <1>5, <1>6, <1>7, <1>8 DEF Next, Step

\* What the steps do to what the index says.
LEMMA LiveNext ==
    ASSUME StreamInv, BatchInv, FileInv, KeptInv, [Next]_vars, ~LoseVolume,
           NEW url \in Url
    PROVE  /\ AddDocuments => Live(url)' = IF url \in UrlsOf(Upserts) THEN UpsertOf(url)
                                           ELSE Live(url)
           /\ DeleteUrls => Live(url)' = IF url \in UrlsOf(Deletes) THEN Dead ELSE Live(url)
           /\ ~AddDocuments /\ ~DeleteUrls => Live(url)' = Live(url)
<1>a. IsIndex(updates, local) /\ updates.cursor \in Nat
  BY BatchFacts DEF FileInv
<1>b. Live(url) = LiveIn(local.layers, local.files, url)
      /\ Live(url)' = LiveIn(local'.layers, local'.files, url)
  BY DEF Live
<1>1. ASSUME AddDocuments
      PROVE  Live(url)' = IF url \in UrlsOf(Upserts) THEN UpsertOf(url) ELSE Live(url)
  <2> DEFINE file == [u \in UrlsOf(Upserts) |-> UpsertOf(u)]
  <2>1. CASE Upserts = {}
    <3>1. local' = local /\ UrlsOf(Upserts) = {}
      BY <1>1, <2>1 DEF AddDocuments, UrlsOf
    <3> QED
      BY <3>1, <1>b
  <2>2. CASE Upserts # {}
    <3>1. local' = WithFile(local, "seg", file)
      BY <1>1, <2>2 DEF AddDocuments
    <3>2. IsFile(updates, file)
      BY UpsertFacts
    <3>3. DOMAIN file = UrlsOf(Upserts)
          /\ \A u \in UrlsOf(Upserts) : file[u] = UpsertOf(u)
      OBVIOUS
    <3> HIDE DEF file
    <3>4. \E dir \in {"seg", "deletes"} : dir = "seg"
      OBVIOUS
    <3>5. LiveIn(local'.layers, local'.files, url)
            = IF url \in DOMAIN file THEN file[url]
              ELSE LiveIn(local.layers, local.files, url)
      BY <1>a, <3>1, <3>2, <3>4, WithFileIsIndex
    <3> QED
      BY <3>3, <3>5, <1>b
  <2> QED
    BY <2>1, <2>2
<1>2. ASSUME DeleteUrls
      PROVE  Live(url)' = IF url \in UrlsOf(Deletes) THEN Dead ELSE Live(url)
  <2> DEFINE dead == {u \in UrlsOf(Deletes) : Live(u) # Dead}
             file == [u \in dead |-> Dead]
  <2>1. CASE dead = {}
    <3>1. local' = local
      BY <1>2, <2>1 DEF DeleteUrls
    <3>2. url \in UrlsOf(Deletes) => Live(url) = Dead
      BY <2>1
    <3> QED
      BY <3>1, <3>2, <1>b
  <2>2. CASE dead # {}
    <3>1. local' = WithFile(local, "deletes", file)
      BY <1>2, <2>2 DEF DeleteUrls
    <3>2. DOMAIN file = dead /\ \A u \in dead : file[u] = Dead
      OBVIOUS
    <3>3. IsFile(updates, file)
      <4> HIDE DEF dead
      <4> QED
        BY DeletedAreUrls DEF IsFile, dead
    <3>4. \E dir \in {"seg", "deletes"} : dir = "deletes"
      OBVIOUS
    <3> HIDE DEF file
    <3>5. LiveIn(local'.layers, local'.files, url)
            = IF url \in DOMAIN file THEN file[url]
              ELSE LiveIn(local.layers, local.files, url)
      BY <1>a, <3>1, <3>3, <3>4, WithFileIsIndex
    <3>6. url \in dead <=> url \in UrlsOf(Deletes) /\ Live(url) # Dead
      OBVIOUS
    <3> HIDE DEF dead
    <3> QED
      BY <3>2, <3>5, <3>6, <1>b
  <2> QED
    BY <2>1, <2>2
<1>3. ASSUME ~AddDocuments, ~DeleteUrls
      PROVE  Live(url)' = Live(url)
  <2>1. CASE local' = local
    BY <2>1, <1>b
  <2>2. CASE local' # local
    <3>1. MaybeMerge
      BY <2>2, <1>3, MadeNext, LocalSteps
    <3>2. local' = Merged(local, Url)
      BY <2>2, <3>1 DEF MaybeMerge
    <3> QED
      BY <1>a, <1>b, <3>2, MergedIsIndex
  <2> QED
    BY <2>1, <2>2
<1> QED
  BY <1>1, <1>2, <1>3

\* A manifest that is the one of the index shows what the index says.
LEMMA CommittedIsLive ==
    ASSUME FileInv, KeptInv, SnapshotInv, manifest.layers = local.layers, NEW url
    PROVE  Published(url) = Live(url)
<1>1. local.layers \in Seq(FileName) /\ ToSet(local.layers) \subseteq DOMAIN local.files
  BY DEF FileInv, IsIndex, FilesOf
<1>2. ToSet(local.layers) \subseteq DOMAIN remote
  BY DEF SnapshotInv, PublishedIsComplete
<1>3. \A n \in ToSet(local.layers) : n \in DOMAIN remote /\ n \in DOMAIN local.files
                                     /\ remote[n] = local.files[n]
  BY <1>1, <1>2 DEF KeptInv, IsMade
<1>4. LiveIn(local.layers, remote, url) = LiveIn(local.layers, local.files, url)
  BY <1>1, <1>3, LiveSame
<1> QED
  BY <1>4 DEF Published, Live

LEMMA PublishedNext ==
    ASSUME StreamInv, BatchInv, FileInv, SnapshotInv, KeptInv, [Next]_vars,
           ~LoseVolume, NEW url
    PROVE  Published(url)' = IF PutManifest THEN Live(url) ELSE Published(url)
<1>a. /\ manifest.layers \in Seq(FileName)
      /\ ToSet(manifest.layers) \subseteq DOMAIN remote
  BY DEF FileInv, IsManifest, SnapshotInv, PublishedIsComplete
<1>b. Published(url) = LiveIn(manifest.layers, remote, url)
      /\ Published(url)' = LiveIn(manifest'.layers, remote', url)
  BY DEF Published
<1>1. CASE PutManifest
  <2>1. manifest'.layers = local.layers /\ remote' = remote
    BY <1>1 DEF PutManifest, ManifestOf
  <2>2. local.layers \in Seq(FileName)
    BY DEF FileInv, IsIndex
  <2>3. \A n \in ToSet(local.layers) : n \in DOMAIN remote /\ n \in DOMAIN local.files
                                       /\ remote[n] = local.files[n]
    <3>1. ToSet(local.layers) \subseteq uploaded /\ uploaded \subseteq DOMAIN remote
      BY <1>1 DEF PutManifest, Missing, FilesOf, SnapshotInv, MemoryInv
    <3>2. ToSet(local.layers) \subseteq DOMAIN local.files
      BY DEF FileInv, IsIndex, FilesOf
    <3> QED
      BY <3>1, <3>2 DEF KeptInv, IsMade
  <2>4. LiveIn(local.layers, remote, url) = LiveIn(local.layers, local.files, url)
    BY <2>2, <2>3, LiveSame
  <2> QED
    BY <1>1, <2>1, <2>4, <1>b DEF Live
<1>2. CASE ~PutManifest
  <2>1. manifest' = manifest
    BY <1>2, StepsGo
  <2>2. \A n \in ToSet(manifest.layers) : n \in DOMAIN remote' /\ remote'[n] = remote[n]
    <3>1. CASE remote' = remote
      BY <3>1, <1>a
    <3>2. CASE Upload
      <4>1. PICK n \in Missing : remote' = PutObject(remote, n, local.files[n])
        BY <3>2 DEF Upload
      <4>2. n \in DOMAIN remote => remote[n] = local.files[n]
        BY DEF Missing, FileInv, IsIndex, KeptInv, IsMade
      <4> QED
        BY <4>1, <4>2, <1>a DEF PutObject
    <3>3. CASE DeleteObsolete
      <4>1. PICK n \in Obsolete : remote' = DeleteObject(remote, n)
        BY <3>3 DEF DeleteObsolete
      <4>2. n \notin ToSet(manifest.layers)
        BY <3>3 DEF DeleteObsolete, Obsolete, FilesOf, SnapshotInv, CommitInv
      <4> QED
        BY <4>1, <4>2, <1>a DEF DeleteObject
    <3> QED
      BY <3>1, <3>2, <3>3, RemoteSteps
  <2>3. LiveIn(manifest.layers, remote', url) = LiveIn(manifest.layers, remote, url)
    BY <1>a, <2>2, LiveSame
  <2> QED
    BY <1>2, <1>b, <2>1, <2>3
<1> QED
  BY <1>1, <1>2

\* What is confirmed is before the batch, or was in it.
LEMMA AckedFacts ==
    ASSUME StreamInv, BatchInv
    PROVE  \A i \in Acked(updates) :
              /\ i \in 1 .. updates.cursor
              /\ \A j \in Collected : i < j
<1> TAKE i \in Acked(updates)
<1>1. i \in 1 .. updates.cursor /\ i \notin Collected
  BY DEF Acked, BatchInv
<1>2. ASSUME NEW j \in Collected PROVE i < j
  <2>1. batch.last = updates.cursor /\ j \in batch.first .. batch.last
    BY DEF BatchInv, Collected
  <2> QED
    BY <1>1, <2>1, BatchFacts DEF Collected
<1> QED
  BY <1>1, <1>2

LEMMA AckedNext ==
    ASSUME StreamInv, BatchInv, [Next]_vars
    PROVE  \A i \in Acked(updates)' :
              i \in Acked(updates) \/ (AckNext /\ i = batch.first /\ i \in Collected)
<1> USE DEF Acked
<1>e. updates \in [entries: Seq(Update \cup {Junk}), cursor: Nat, pending: SUBSET Nat]
  BY DEF StreamInv, StreamOf
<1>1. CASE updates' = updates
  BY <1>1
<1>2. CASE \E update \in Update \cup {Junk} : updates' = Publish(updates, update)
  BY <1>2, <1>e DEF Publish
<1>3. ASSUME NEW count \in Nat, updates' = Consume(updates, count)
      PROVE  Acked(updates)' \subseteq Acked(updates)
  <2> DEFINE l == LastDelivered(updates, count)
  <2>1. updates'.cursor = l
        /\ updates'.pending = updates.pending \cup ((updates.cursor + 1) .. l)
    BY <1>3, <1>e DEF Consume
  <2>2. l \in Nat
    BY <1>e, BatchFacts DEF LastDelivered
  <2> HIDE DEF l
  <2>3. \A i \in 1 .. l : i \notin (updates.cursor + 1) .. l => i \in 1 .. updates.cursor
    BY <2>2, <1>e
  <2> QED
    BY <2>1, <2>3
<1>4. CASE AckNext
  <2>1. updates'.cursor = updates.cursor
        /\ updates'.pending = updates.pending \ {batch.first}
    BY <1>4, <1>e DEF AckNext, Ack
  <2>2. batch.first \in Collected
    BY <1>4, BatchFacts DEF AckNext, BatchInv, Steps, Collected
  <2> QED
    BY <1>4, <2>1, <2>2
<1>5. \A count \in {BatchSize, Room} : count > 0 => count \in Nat
  BY IndexerAssumption DEF Room, BatchInv
<1> QED
  BY <1>1, <1>2, <1>3, <1>4, <1>5, StreamSteps

LEMMA ReflectsStays ==
    ASSUME NEW s, NEW t, s.cursor \in Nat, t.cursor \in Nat, Len(s.entries) \in Nat,
           s.cursor <= Len(s.entries), GrowsTo(s, t), NEW i \in 1 .. s.cursor, NEW doc,
           Reflects(s, i, doc)
    PROVE  Reflects(t, i, doc)
<1>1. \A j \in 1 .. s.cursor : j \in 1 .. t.cursor /\ t.entries[j] = s.entries[j]
  BY DEF GrowsTo
<1> QED
  BY <1>1 DEF Reflects

\* A coalesced message reflects every earlier one about its URL.
LEMMA CoalescedReflects ==
    ASSUME StreamInv, BatchInv, NEW j \in Coalesced, NEW i \in 1 .. j,
           Message(i).url = Message(j).url
    PROVE  Reflects(updates, i, Effect(j))
<1>1. j \in 1 .. updates.cursor /\ Valid(j)
  BY CoalescedFacts, BatchFacts
<1>2. j \in i .. updates.cursor
  BY <1>1, BatchFacts
<1> QED
  BY <1>1, <1>2 DEF Reflects, Effect, Message, Valid

LEMMA AppliedNext ==
    ASSUME StreamInv, BatchInv, FileInv, SnapshotInv, KeptInv, AppliedInv,
           [Next]_vars, ~LoseVolume
    PROVE  AppliedInv'
<1>a. StreamInv' /\ GrowsTo(updates, updates')
  BY StreamNext DEF Grows
<1>b. /\ updates.cursor \in Nat /\ Len(updates.entries) \in Nat
      /\ updates.cursor <= Len(updates.entries) /\ updates'.cursor \in Nat
  BY <1>a, BatchFacts DEF StreamInv, StreamOf
<1>c. \A i \in 1 .. updates.cursor : Message(i)' = Message(i) /\ (Valid(i)' <=> Valid(i))
  BY <1>a, <1>b, MessageStays DEF Grows
<1>d. \A i \in 1 .. updates.cursor : Valid(i) => Message(i).url \in Url
  BY <1>b, BatchFacts DEF Valid, Update
<1>e. \A i \in 1 .. updates.cursor : \A doc :
         Reflects(updates, i, doc) => Reflects(updates', i, doc)
  BY <1>a, <1>b, ReflectsStays
<1>f. Upserts \subseteq Coalesced /\ Deletes \subseteq Coalesced
      /\ Coalesced \subseteq Collected /\ Collected \subseteq 1 .. updates.cursor
      /\ (\A i \in Upserts : Effect(i) = i) /\ (\A i \in Deletes : Effect(i) = Dead)
  BY CoalescedFacts, BatchFacts DEF Upserts, Deletes, Effect
\* What stays of what is before the batch.
<1>1. ASSUME NEW i \in Acked(updates), Valid(i), NEW url \in Url, url = Message(i).url
      PROVE  Reflects(updates, i, Live(url)')
  <2>1. i \in 1 .. updates.cursor /\ Reflects(updates, i, Live(url))
    BY <1>1, AckedFacts DEF AppliedInv
  <2>2. \A j \in Coalesced : i \in 1 .. j
    BY <2>1, <1>b, <1>f, AckedFacts
  <2>4. CASE AddDocuments /\ url \in UrlsOf(Upserts)
    <3>1. PICK j \in Upserts : Message(j).url = url
      BY <2>4 DEF UrlsOf
    <3>2. Live(url)' = j
      BY <2>4, <3>1, LiveNext, UpsertFacts
    <3>3. Reflects(updates, i, Effect(j)) /\ Effect(j) = j
      BY <1>1, <2>2, <3>1, <1>f, CoalescedReflects
    <3> QED
      BY <3>2, <3>3
  <2>5. CASE DeleteUrls /\ url \in UrlsOf(Deletes)
    <3>1. PICK j \in Deletes : Message(j).url = url
      BY <2>5 DEF UrlsOf
    <3>2. Live(url)' = Dead
      BY <2>5, LiveNext
    <3>3. Reflects(updates, i, Effect(j)) /\ Effect(j) = Dead
      BY <1>1, <2>2, <3>1, <1>f, CoalescedReflects
    <3> QED
      BY <3>2, <3>3
  <2>6. CASE ~(AddDocuments /\ url \in UrlsOf(Upserts)) /\ ~(DeleteUrls /\ url \in UrlsOf(Deletes))
    <3>1. Live(url)' = Live(url)
      BY <2>6, LiveNext
    <3> QED
      BY <2>1, <3>1
  <2> QED
    BY <2>4, <2>5, <2>6
\* What is published of it.
<1>2. ASSUME NEW i \in Acked(updates), Valid(i), NEW url \in Url, url = Message(i).url
      PROVE  Reflects(updates, i, Published(url)')
  <2>1. Reflects(updates, i, Live(url)) /\ Reflects(updates, i, Published(url))
    BY <1>2 DEF AppliedInv
  <2> QED
    BY <2>1, PublishedNext
\* What the batch has done.
<1>3. ASSUME pc' \in AfterApply, NEW i \in Collected, Valid(i),
             NEW url \in Url, url = Message(i).url
      PROVE  Reflects(updates, i, Live(url)')
  <2>1. CASE DeleteUrls
    <3>1. PICK j \in Coalesced : i <= j /\ Message(j).url = url
      BY <1>3, CoalescedFacts
    <3>2. j \in Nat /\ i \in 1 .. j
      BY <3>1, <1>b, <1>f
    <3>3. Reflects(updates, i, Effect(j))
      BY <3>1, <3>2, <1>3, CoalescedReflects
    <3>4. CASE j \in Upserts
      <4>1. Live(url) = j
        BY <2>1, <3>1, <3>4 DEF AppliedInv, DeleteUrls
      <4>2. url \notin UrlsOf(Deletes)
        <5>1. \A k \in Deletes : Message(k).url = url => k = j
          BY <3>1, <1>f, CoalescedFacts
        <5>2. j \notin Deletes
          BY <3>4 DEF Upserts, Deletes
        <5> QED
          BY <5>1, <5>2 DEF UrlsOf
      <4>3. Live(url)' = j
        BY <2>1, <4>1, <4>2, LiveNext
      <4> QED
        BY <3>3, <3>4, <4>3, <1>f
    <3>5. CASE j \in Deletes
      <4>1. url \in UrlsOf(Deletes)
        BY <3>1, <3>5 DEF UrlsOf
      <4>2. Live(url)' = Dead
        BY <2>1, <4>1, LiveNext
      <4> QED
        BY <3>3, <3>5, <4>2, <1>f
    <3> QED
      BY <3>4, <3>5 DEF Upserts, Deletes
  <2>2. CASE ~DeleteUrls
    <3>1. pc \in AfterApply
      BY <1>3, <2>2, StepsGo
    <3>2. Reflects(updates, i, Live(url))
      BY <1>3, <3>1 DEF AppliedInv
    <3>3. ~AddDocuments
      BY <3>1 DEF AddDocuments, AfterApply
    <3>4. Live(url)' = Live(url)
      BY <2>2, <3>3, LiveNext
    <3> QED
      BY <3>2, <3>4
  <2> QED
    BY <2>1, <2>2
<1>4. ASSUME pc' \in AfterApply, AckNext \/ batch' = batch
      PROVE  Collected' \subseteq Collected
  <2>1. CASE batch' = batch
    BY <2>1 DEF Collected
  <2>2. CASE AckNext
    <3>1. batch'.first = batch.first + 1 /\ batch'.last = batch.last
      BY <2>2, BatchFacts DEF AckNext, BatchInv
    <3> QED
      BY <3>1, BatchFacts DEF Collected
  <2> QED
    BY <1>4, <2>1, <2>2
<1>5. pc' \in AfterApply => AckNext \/ batch' = batch
  BY StepsGo DEF Collect, Crash, AfterApply
\* AckNext confirms a message of the batch.
<1>6. ASSUME NEW i \in Acked(updates)', Valid(i), NEW url \in Url, url = Message(i).url
      PROVE  Reflects(updates, i, Live(url)') /\ Reflects(updates, i, Published(url)')
  <2>1. CASE i \in Acked(updates)
    BY <2>1, <1>1, <1>2, <1>6
  <2>2. CASE AckNext /\ i \in Collected
    <3>1. pc = "confirm"
      BY <2>2 DEF AckNext
    <3>2. Reflects(updates, i, Live(url)) /\ Published(url) = Live(url)
      BY <2>2, <3>1, <1>6, CommittedIsLive DEF AppliedInv, AfterApply, AfterCommit
    <3>3. Live(url)' = Live(url) /\ Published(url)' = Published(url)
      BY <3>1, LiveNext, PublishedNext DEF AddDocuments, DeleteUrls, PutManifest
    <3> QED
      BY <3>2, <3>3
  <2> QED
    BY <2>1, <2>2, AckedNext
<1>7. \A i \in Acked(updates)' : i \in 1 .. updates.cursor
  BY AckedNext, AckedFacts, <1>f
<1>8. \A i \in Acked(updates)' : Valid(i)' =>
         Reflects(updates, i, Live(Message(i).url))'
            /\ Reflects(updates, i, Published(Message(i).url))'
  <2> SUFFICES ASSUME NEW i \in Acked(updates)', Valid(i)'
               PROVE  Reflects(updates, i, Live(Message(i).url))'
                         /\ Reflects(updates, i, Published(Message(i).url))'
    OBVIOUS
  <2>1. i \in 1 .. updates.cursor /\ Valid(i)
    BY <1>7, <1>c
  <2>2. PICK url \in Url : url = Message(i).url
    BY <2>1, <1>d
  <2>3. Message(i)' = Message(i)
    BY <2>1, <1>c
  <2>4. Reflects(updates', i, Live(url)') /\ Reflects(updates', i, Published(url)')
    BY <2>1, <2>2, <1>6, <1>e
  <2> QED
    BY <2>2, <2>3, <2>4 DEF Live, Published
<1>9. pc' = "delete" => \A i \in Upserts' : Live(Message(i).url)' = i
  <2> SUFFICES ASSUME pc' = "delete", NEW i \in Upserts'
               PROVE  Live(Message(i).url)' = i
    OBVIOUS
  <2>1. batch' = batch
    BY StepsGo DEF Collect, AckNext, Crash
  <2>2. i \in Upserts
    BY <2>1, <1>a, CoalescedStays DEF Grows
  <2>3. PICK url \in Url : url = Message(i).url
    BY <2>2, <1>d, <1>f, CoalescedFacts
  <2>4. Message(i)' = Message(i)
    BY <2>2, <1>c, <1>f
  <2>5. CASE AddDocuments
    <3>1. url \in UrlsOf(Upserts) /\ UpsertOf(url) = i
      BY <2>2, <2>3, UpsertFacts DEF UrlsOf
    <3>2. Live(url)' = i
      BY <2>5, <3>1, LiveNext
    <3> QED
      BY <2>3, <2>4, <3>2 DEF Live
  <2>6. CASE pc = "delete" /\ local' = local
    <3>1. Live(url) = i
      BY <2>2, <2>3, <2>6 DEF AppliedInv
    <3> QED
      BY <2>3, <2>4, <2>6, <3>1 DEF Live
  <2> QED
    BY <2>5, <2>6, StepsGo
<1>10. pc' \in AfterApply => \A i \in Collected' : Valid(i)' =>
          Reflects(updates, i, Live(Message(i).url))'
  <2> SUFFICES ASSUME pc' \in AfterApply, NEW i \in Collected', Valid(i)'
               PROVE  Reflects(updates, i, Live(Message(i).url))'
    OBVIOUS
  <2>1. i \in Collected
    BY <1>4, <1>5
  <2>2. i \in 1 .. updates.cursor
    BY <2>1, <1>f
  <2>3. Message(i)' = Message(i) /\ Valid(i)
    BY <2>2, <1>c
  <2>4. PICK url \in Url : url = Message(i).url
    BY <2>2, <2>3, <1>d
  <2>5. Reflects(updates', i, Live(url)')
    BY <2>1, <2>2, <2>3, <2>4, <1>3, <1>e
  <2> QED
    BY <2>3, <2>4, <2>5 DEF Live
<1>11. pc' \in AfterCommit => manifest'.layers = local'.layers
  <2>1. PutManifest => manifest'.layers = local.layers /\ local' = local
    BY DEF PutManifest, ManifestOf, volume
  <2> QED
    BY <2>1, StepsGo DEF AppliedInv
<1> QED
  BY <1>8, <1>9, <1>10, <1>11 DEF AppliedInv

-----------------------------------------------------------------------------
(***************************************************************************)
(* The texts.                                                              *)
(***************************************************************************)
LEMMA TextSteps ==
    ASSUME [Next]_vars
    PROVE  /\ texts' = texts \/ PutText \/ DeleteText
           /\ pc' = "texts" => \/ CloseBatch \/ PutText
                               \/ pc = "texts" /\ UNCHANGED <<batch, todo, texts>>
           /\ pc' = "confirm" => \/ EndPublish \/ DeleteText \/ AckNext
                                 \/ pc = "confirm" /\ UNCHANGED <<batch, todo, local>>
           /\ pc' = "collect" => \/ Collect
                                 \/ AckNext
                                 \/ pc \in {"open", "restore"} /\ batch' = batch
                                 \/ pc = "collect" /\ batch' = batch
<1>1. CASE \E update \in Update \cup {Junk} : Send(update)
  BY <1>1 DEF Send, storage, volume
<1>2. CASE UNCHANGED vars
  BY <1>2 DEF vars, storage, volume
<1>3. CASE Open \/ RestoreFiles \/ RestoreManifest \/ LoseVolume
  BY <1>3 DEF Open, RestoreFiles, RestoreManifest, LoseVolume, storage
<1>4. CASE Collect \/ CloseBatch \/ ListRemote \/ EndPublish \/ AckNext
  BY <1>4 DEF Collect, CloseBatch, ListRemote, EndPublish, AckNext, storage
<1>5. CASE PutText \/ Upload \/ PutManifest \/ PutPointer \/ PutMarker
  BY <1>5 DEF PutText, Upload, PutManifest, PutPointer, PutMarker
<1>6. CASE DeleteObsolete \/ DeleteText
  BY <1>6 DEF DeleteObsolete, DeleteText
<1>7. CASE AddDocuments \/ DeleteUrls \/ MaybeMerge
  BY <1>7 DEF AddDocuments, DeleteUrls, MaybeMerge, storage
<1>8. CASE Crash
  BY <1>8 DEF Crash, storage
<1> QED
  BY <1>1, <1>2, <1>3, <1>4, <1>5, <1>6, <1>7, <1>8 DEF Next, Step

\* Which text a step writes.
LEMMA TextWritten ==
    ASSUME StreamInv, BatchInv, TextInv, [Next]_vars
    PROVE  /\ PutText => /\ Min(todo) \in Upserts \cap todo
                         /\ Message(Min(todo)).url \in Url
                         /\ todo' = todo \ {Min(todo)}
                         /\ texts' = [texts EXCEPT ![Message(Min(todo)).url] = Min(todo)]
           /\ DeleteText => /\ Min(todo) \in Deletes \cap todo
                            /\ Message(Min(todo)).url \in Url
                            /\ todo' = todo \ {Min(todo)}
                            /\ texts' = [texts EXCEPT ![Message(Min(todo)).url] = Dead]
<1>1. ASSUME todo # {} PROVE Min(todo) \in todo
  <2>1. todo \in SUBSET Nat
    BY BatchFacts DEF BatchInv
  <2> QED
    BY <1>1, <2>1, MinIsLeast
<1>2. \A i \in Upserts \cup Deletes : Message(i).url \in Url
  BY UpsertFacts DEF Upserts, Deletes, Update
<1>3. ASSUME PutText PROVE Min(todo) \in Upserts \cap todo
  BY <1>1, <1>3 DEF PutText, BatchInv
<1>4. ASSUME DeleteText PROVE Min(todo) \in Deletes \cap todo
  BY <1>1, <1>4 DEF DeleteText, BatchInv
<1> QED
  BY <1>2, <1>3, <1>4 DEF PutText, DeleteText

LEMMA TextNext ==
    ASSUME StreamInv, BatchInv, TextInv, [Next]_vars
    PROVE  TextInv'
<1>a. updates.cursor \in Nat /\ updates'.cursor \in Nat /\ updates.cursor <= updates'.cursor
      /\ batch.first \in Nat /\ batch.last \in Nat
  BY StreamNext, BatchFacts DEF Grows, GrowsTo, StreamInv, StreamOf
<1>1. texts' \in [Url -> 0 .. updates.cursor]
  <2>1. CASE texts' = texts
    BY <2>1 DEF TextInv
  <2>2. CASE PutText
    <3>1. Min(todo) \in 0 .. updates.cursor
      BY <2>2, TextWritten, BatchFacts DEF Upserts, Coalesced
    <3> QED
      BY <2>2, <3>1, TextWritten DEF TextInv
  <2>3. CASE DeleteText
    BY <2>3, <1>a, TextWritten DEF TextInv, Dead
  <2> QED
    BY <2>1, <2>2, <2>3, TextSteps
<1>2. \A i \in 0 .. updates.cursor : i \in 0 .. updates'.cursor
  BY <1>a
<1>3. texts' \in [Url -> 0 .. updates'.cursor]
  BY <1>1, <1>2
<1>4. ASSUME pc' = "collect", Collected' # {}, NEW url \in Url
      PROVE  texts'[url] < batch'.first
  <2>1. texts' = texts
    BY <1>4, TextSteps DEF PutText, DeleteText
  <2>2. texts[url] \in 0 .. updates.cursor
    BY DEF TextInv
  <2>3. CASE Collect
    <3>1. batch'.first = IF Collected = {} THEN updates.cursor + 1 ELSE batch.first
      BY <2>3 DEF Collect
    <3>2. CASE Collected = {}
      BY <2>1, <2>2, <3>1, <3>2, <1>a
    <3>3. CASE Collected # {}
      BY <2>1, <2>3, <3>1, <3>3 DEF TextInv, Collect
    <3> QED
      BY <3>2, <3>3
  <2>4. CASE AckNext
    <3>1. batch.first = batch.last /\ batch' = [batch EXCEPT !.first = @ + 1]
      BY <1>4, <2>4 DEF AckNext
    <3>2. batch'.first = batch.first + 1 /\ batch'.last = batch.last
      BY <3>1 DEF BatchInv
    <3>3. Collected' = {}
      BY <3>1, <3>2, <1>a DEF Collected
    <3> QED
      BY <3>3, <1>4
  <2>5. CASE batch' = batch
    <3>1. Collected' = Collected
      BY <2>5 DEF Collected
    <3>2. CASE pc \in {"open", "restore"}
      BY <3>1, <3>2, <1>4 DEF BatchInv
    <3>3. CASE pc = "collect"
      BY <2>1, <2>5, <3>1, <3>3, <1>4 DEF TextInv
    <3>4. Collect \/ AckNext \/ pc \in {"open", "restore", "collect"}
      BY <1>4, TextSteps
    <3> QED
      BY <3>2, <3>3, <3>4, <2>3, <2>4
  <2> QED
    BY <1>4, <2>3, <2>4, <2>5, TextSteps
<1> QED
  BY <1>3, <1>4 DEF TextInv

LEMMA TextsNext ==
    ASSUME StreamInv, BatchInv, FileInv, SnapshotInv, KeptInv, AppliedInv, TextInv,
           TextsAreThere, [Next]_vars, ~LoseVolume
    PROVE  TextsAreThere'
<1>a. /\ updates.cursor \in Nat
      /\ Upserts \subseteq Coalesced /\ Deletes \subseteq Coalesced
      /\ Coalesced \subseteq Collected /\ Collected \subseteq 1 .. updates.cursor
  BY CoalescedFacts, BatchFacts DEF Upserts, Deletes
<1>b. /\ \A i \in Coalesced : Message(i).url \in Url
      /\ \A i, j \in Coalesced : Message(i).url = Message(j).url => i = j
  BY UpsertFacts, CoalescedFacts DEF Update
<1>c. \A url \in Url : /\ texts[url] \in Nat /\ Live(url) <= texts[url]
                       /\ Published(url) <= texts[url]
  BY <1>a DEF TextInv, TextsAreThere
<1>d. \A url \in Url : Live(url) \in Nat /\ Published(url) \in Nat
  <2>1. local.layers \in Seq(FileName) /\ AreFiles(updates, local.files)
    BY DEF FileInv, IsIndex
  <2>2. manifest.layers \in Seq(FileName) /\ AreFiles(updates, remote)
    BY DEF FileInv, IsManifest
  <2> QED
    BY <1>a, <2>1, <2>2, LiveIsBrought DEF Live, Published
<1>e. \A i \in Collected : Message(i)' = Message(i)
  BY StreamNext, MessageStays, BatchFacts
<1>1. ASSUME NEW url \in Url
      PROVE  Live(url)' <= texts'[url] /\ Published(url)' <= texts'[url]
  <2>1. CASE texts' = texts
    <3>1. Live(url)' <= texts[url]
      <4>1. CASE AddDocuments /\ url \in UrlsOf(Upserts)
        <5>1. PICK i \in Upserts : Message(i).url = url
          BY <4>1 DEF UrlsOf
        <5>2. texts[url] = i
          BY <4>1, <5>1 DEF TextsAreThere, AddDocuments
        <5>3. Live(url)' = i
          BY <4>1, <5>1, LiveNext, UpsertFacts
        <5> QED
          BY <5>2, <5>3, <1>c
      <4>2. CASE DeleteUrls /\ url \in UrlsOf(Deletes)
        BY <4>2, <1>c, LiveNext DEF Dead
      <4>3. CASE ~(AddDocuments /\ url \in UrlsOf(Upserts))
                    /\ ~(DeleteUrls /\ url \in UrlsOf(Deletes))
        BY <4>3, <1>c, LiveNext
      <4> QED
        BY <4>1, <4>2, <4>3
    <3>2. Published(url)' <= texts[url]
      BY <1>c, PublishedNext
    <3> QED
      BY <2>1, <3>1, <3>2
  <2>2. CASE PutText
    <3>1. Live(url)' = Live(url) /\ Published(url)' = Published(url)
      BY <2>2, LiveNext, PublishedNext DEF PutText, AddDocuments, DeleteUrls, PutManifest
    <3>2. texts[url] <= texts'[url] /\ texts'[url] \in Nat
      <4>1. Min(todo) \in Upserts /\ Min(todo) \in todo
        BY <2>2, TextWritten
      <4>2. Min(todo) \in Nat
        <5>1. Upserts \subseteq Nat
          BY <1>a
        <5> QED
          BY <4>1, <5>1
      <4>3. texts[Message(Min(todo)).url] < Min(todo)
        BY <2>2, <4>1 DEF TextsAreThere, PutText
      <4> QED
        BY <2>2, <4>2, <4>3, <1>c, TextWritten DEF TextInv
    <3> QED
      BY <3>1, <3>2, <1>c, <1>d
  <2>3. CASE DeleteText
    <3>1. Live(url)' = Live(url) /\ Published(url)' = Published(url)
      BY <2>3, LiveNext, PublishedNext DEF DeleteText, AddDocuments, DeleteUrls, PutManifest
    <3>2. CASE url = Message(Min(todo)).url
      <4>1. Live(url) = Dead
        BY <2>3, <3>2, TextWritten DEF TextsAreThere, DeleteText
      <4>2. Published(url) = Live(url)
        BY <2>3, CommittedIsLive DEF AppliedInv, AfterCommit, DeleteText
      <4>3. texts'[url] = Dead
        BY <2>3, <3>2, TextWritten DEF TextInv
      <4> QED
        BY <3>1, <4>1, <4>2, <4>3 DEF Dead
    <3>3. CASE url # Message(Min(todo)).url
      BY <2>3, <3>1, <3>3, <1>c, TextWritten DEF TextInv
    <3> QED
      BY <3>2, <3>3
  <2> QED
    BY <2>1, <2>2, <2>3, TextSteps
<1>2. ASSUME pc' = "texts", NEW i \in Upserts'
      PROVE  IF i \in todo' THEN texts'[Message(i).url'] < i ELSE texts'[Message(i).url'] = i
  <2>1. batch' = batch
    BY <1>2, StepsGo DEF Collect, AckNext, Crash
  <2>2. i \in Upserts
    BY <2>1, StreamNext, CoalescedStays
  <2>3. Message(i)' = Message(i) /\ Message(i).url \in Url /\ i \in Nat
    BY <2>2, <1>a, <1>b, <1>e
  <2>4. CASE CloseBatch
    <3>1. texts' = texts /\ i \in todo'
      BY <2>2, <2>4 DEF CloseBatch, storage
    <3>2. texts[Message(i).url] < batch.first
      BY <2>3, <2>4 DEF TextInv, CloseBatch
    <3>3. batch.first <= i
      BY <2>2, <1>a DEF Collected
    <3>4. texts[Message(i).url] < i
      BY <3>2, <3>3, <2>3, <1>c, BatchFacts
    <3> QED
      BY <2>3, <3>1, <3>4
  <2>5. CASE PutText
    <3>1. IF i \in todo THEN texts[Message(i).url] < i ELSE texts[Message(i).url] = i
      BY <2>2, <2>5 DEF TextsAreThere, PutText
    <3>2. CASE i = Min(todo)
      BY <2>3, <2>5, <3>2, TextWritten DEF TextInv
    <3>3. CASE i # Min(todo)
      <4>1. Message(i).url # Message(Min(todo)).url
        BY <2>2, <2>5, <3>3, <1>a, <1>b, TextWritten
      <4>2. texts'[Message(i).url] = texts[Message(i).url]
        BY <2>3, <2>5, <4>1, TextWritten DEF TextInv
      <4> QED
        BY <2>3, <2>5, <3>1, <3>3, <4>2, TextWritten
    <3> QED
      BY <3>2, <3>3
  <2>6. CASE pc = "texts" /\ UNCHANGED <<batch, todo, texts>>
    BY <2>2, <2>3, <2>6 DEF TextsAreThere
  <2> QED
    BY <1>2, <2>4, <2>5, <2>6, TextSteps
<1>3. ASSUME pc' = "confirm", NEW i \in todo'
      PROVE  Live(Message(i).url)' = Dead
  <2>1. CASE AckNext
    BY <2>1, <1>3 DEF AckNext
  <2>2. CASE EndPublish
    <3>1. i \in Deletes /\ Live(Message(i).url) = Dead /\ local' = local
      BY <2>2, <1>3 DEF EndPublish, volume
    <3>2. Message(i)' = Message(i)
      BY <3>1, <1>a, <1>e
    <3> QED
      BY <3>1, <3>2 DEF Live
  <2>3. CASE DeleteText \/ (pc = "confirm" /\ UNCHANGED <<batch, todo, local>>)
    <3>1. i \in todo /\ local' = local /\ pc = "confirm"
      BY <2>3, <1>3 DEF DeleteText, volume
    <3>2. Live(Message(i).url) = Dead
      BY <3>1 DEF TextsAreThere
    <3>3. Message(i)' = Message(i)
      BY <3>1, <1>e DEF BatchInv
    <3> QED
      BY <3>1, <3>2, <3>3 DEF Live
  <2> QED
    BY <1>3, <2>1, <2>2, <2>3, TextSteps
<1> QED
  BY <1>1, <1>2, <1>3 DEF TextsAreThere

-----------------------------------------------------------------------------
LEMMA IndexerInit == Init => IndexerInv
<1> SUFFICES ASSUME Init PROVE IndexerInv
  OBVIOUS
<1>1. losses = 0 /\ SnapshotInv
  BY SnapshotInit DEF Init
<1>2. /\ updates.entries = <<>> /\ updates.cursor = 0 /\ updates.pending = {}
      /\ updates = [entries |-> <<>>, cursor |-> 0, pending |-> {}]
  BY DEF Init, EmptyStream
<1>3. <<>> \in Seq(Update \cup {Junk}) /\ Len(<<>>) = 0 /\ ToSet(<<>>) = {}
      /\ <<>> \in Seq(FileName)
  BY DEF ToSet
<1>4. StreamInv
  <2>1. updates \in [entries: Seq(Update \cup {Junk}), cursor: Nat, pending: SUBSET Nat]
    BY <1>2, <1>3
  <2> QED
    BY <1>2, <1>3, <2>1 DEF StreamInv, StreamOf
<1>5. batch = [first |-> 1, last |-> 0] /\ batch.first = 1 /\ batch.last = 0
  BY DEF Init, EmptyBatch
<1>6. Collected = {} /\ batch \in [first: Nat \ {0}, last: Nat]
  BY <1>5 DEF Collected
<1>7. BatchInv
  BY <1>6 DEF Init, BatchInv, Steps
<1>8. /\ local = [layers |-> <<>>, next |-> 1, files |-> NoObjects]
      /\ local.layers = <<>> /\ local.next = 1 /\ local.files = NoObjects
      /\ manifest = [layers |-> <<>>, next |-> 0]
      /\ manifest.layers = <<>> /\ manifest.next = 0
      /\ pointer = [manifest |-> manifest, files |-> NoObjects]
      /\ pointer.manifest = manifest /\ pointer.files = NoObjects
      /\ remote = NoObjects
  BY DEF Init, EmptyIndex, NoManifest, NoVersion
<1>9. IsIndex(updates, local)
  BY <1>3, <1>8, NoFiles DEF IsIndex, FilesOf
<1>10. IsManifest(manifest)
  BY <1>3, <1>8 DEF IsManifest
<1>11. IsVersion(updates, pointer)
  BY <1>3, <1>8, <1>10, NoFiles DEF IsVersion
<1>12. FileInv
  BY <1>8, <1>9, <1>10, <1>11, NoFiles DEF FileInv
<1>13. KeptInv
  <2>1. IsMade(local, remote, NoObjects)
    BY NoFiles DEF IsMade
  <2>2. pc = "open" /\ manifest = NoManifest /\ local = EmptyIndex
    BY DEF Init
  <2> QED
    BY <1>8, <2>1, <2>2 DEF KeptInv
<1>14. \A url : Live(url) = Dead /\ Published(url) = Dead
  BY <1>8 DEF Live, Published, LiveIn
<1>15. AppliedInv
  <2>1. Acked(updates) = {}
    BY <1>2 DEF Acked
  <2>2. pc = "open"
    BY DEF Init
  <2> QED
    BY <2>1, <2>2 DEF AppliedInv, AfterApply, AfterCommit
<1>16. TextInv /\ TextsAreThere
  BY <1>2, <1>14 DEF Init, TextInv, TextsAreThere, Dead
<1> QED
  BY <1>1, <1>4, <1>7, <1>12, <1>13, <1>15, <1>16 DEF IndexerInv

LEMMA IndexerNext == IndexerInv /\ [Next]_vars => IndexerInv'
<1> SUFFICES ASSUME IndexerInv, [Next]_vars PROVE IndexerInv'
  OBVIOUS
<1>1. StreamInv /\ BatchInv /\ FileInv /\ SnapshotInv /\ TextInv /\ losses \in Nat
  BY DEF IndexerInv
<1>2. StreamInv' /\ BatchInv' /\ FileInv' /\ TextInv'
  BY <1>1, StreamNext, BatchNext, FileNext, TextNext
<1>3. SnapshotInv'
  BY <1>1, SnapshotNext
<1>4. losses' \in Nat /\ (losses' = 0 => losses = 0 /\ ~LoseVolume)
  BY <1>1, LossesCount
<1>5. ASSUME losses' = 0 PROVE KeptInv' /\ AppliedInv' /\ TextsAreThere'
  <2>1. KeptInv /\ AppliedInv /\ TextsAreThere /\ ~LoseVolume
    BY <1>4, <1>5 DEF IndexerInv
  <2> QED
    BY <1>1, <2>1, KeptNext, AppliedNext, TextsNext
<1> QED
  BY <1>2, <1>3, <1>4, <1>5 DEF IndexerInv

LEMMA IndexerInvariant == Spec => []IndexerInv
BY IndexerInit, IndexerNext, PTL DEF Spec

-----------------------------------------------------------------------------
\* Every variable keeps its type, for every number of updates, crashes and
\* losses: what is collected is pending, and _uploaded names what is stored.
THEOREM TypesAreKept == Spec => []TypeOK
<1>1. IndexerInv => TypeOK
  <2> SUFFICES ASSUME IndexerInv PROVE TypeOK
    OBVIOUS
  <2>a. StreamInv /\ BatchInv /\ FileInv /\ SnapshotInv /\ TextInv
    BY DEF IndexerInv
  <2>1. /\ updates.entries \in Seq(Update \cup {Junk})
        /\ updates.cursor \in 0 .. Len(updates.entries)
        /\ updates.pending \subseteq 1 .. updates.cursor
        /\ Collected \subseteq 1 .. updates.cursor
    BY <2>a, BatchFacts DEF StreamInv, StreamOf
  <2>2. /\ manifest.next \in Nat
        /\ ToSet(manifest.layers) \subseteq DOMAIN remote
        /\ DOMAIN remote \subseteq FileName
        /\ \A n \in DOMAIN remote : DOMAIN remote[n] \subseteq Url
    BY <2>a DEF FileInv, IsManifest, AreFiles, IsFile, SnapshotInv, PublishedIsComplete
  <2>3. texts \in [Url -> 0 .. Len(updates.entries)]
    <3>1. \A i \in 0 .. updates.cursor : i \in 0 .. Len(updates.entries)
      BY <2>1, <2>a, BatchFacts
    <3> QED
      BY <3>1, <2>a DEF TextInv
  <2>4. disk \in {"absent", "partial", "kept"} /\ pc \in Steps /\ todo \subseteq Collected
        /\ listed \in BOOLEAN
    BY <2>a DEF BatchInv
  <2>5. uploaded \subseteq DOMAIN remote
    BY <2>a DEF SnapshotInv, MemoryInv
  <2> QED
    BY <2>1, <2>2, <2>3, <2>4, <2>5 DEF TypeOK
<1> QED
  BY <1>1, IndexerInvariant, PTL

\* As long as the volume is never lost, a published version has the content it
\* was published with, whatever is uploaded and deleted meanwhile.
THEOREM VersionsAreContent == Spec => []VersionIsContent
<1>1. IndexerInv => VersionIsContent
  <2> SUFFICES ASSUME IndexerInv, losses = 0, pointer.manifest = manifest,
                      NEW n \in ToSet(manifest.layers) \cap DOMAIN remote
               PROVE  remote[n] = pointer.files[n]
    BY DEF VersionIsContent
  <2>1. IsMade(local, remote, pointer.files) /\ IsVersion(updates, pointer)
    BY DEF IndexerInv, KeptInv, FileInv
  <2> QED
    BY <2>1 DEF IsMade, IsVersion
<1> QED
  BY <1>1, IndexerInvariant, PTL

\* As long as the volume is never lost, no document is published without its
\* text: texts are written before the index and go after the commit.
THEOREM PublishedHaveTexts == Spec => []PublishedHasText
<1>1. IndexerInv => PublishedHasText
  <2> SUFFICES ASSUME IndexerInv, losses = 0, NEW url \in Url, Published(url) # Dead
               PROVE  texts[url] # Dead
    BY DEF PublishedHasText
  <2>1. Published(url) <= texts[url]
    BY DEF IndexerInv, TextsAreThere
  <2>2. Published(url) \in Nat
    BY BatchFacts, LiveIsBrought DEF IndexerInv, FileInv, IsManifest, Published
  <2> QED
    BY <2>1, <2>2 DEF Dead
<1> QED
  BY <1>1, IndexerInvariant, PTL

\* As long as the volume is never lost, a confirmed update is published, unless
\* a later one on its URL is: no batch, crash, merge or deletion loses it.
THEOREM ConfirmedIsPublished == Spec => []AckedIsPublishedByKept
<1>1. IndexerInv => AckedIsPublishedByKept
  <2> SUFFICES ASSUME IndexerInv, losses = 0, NEW i \in Acked(updates), Valid(i)
               PROVE  \E j \in i .. updates.cursor :
                         /\ Valid(j) /\ Message(j).url = Message(i).url
                         /\ Published(Message(i).url) = Effect(j)
    BY DEF AckedIsPublishedByKept, AckedIsPublished
  <2>1. Reflects(updates, i, Published(Message(i).url))
    BY DEF IndexerInv, AppliedInv
  <2> QED
    BY <2>1 DEF Reflects, Valid, Message, Effect
<1> QED
  BY <1>1, IndexerInvariant, PTL

-----------------------------------------------------------------------------
(***************************************************************************)
(* What the exporter of bundles may rely on, for every number of updates,  *)
(* crashes of the indexer, deaths of the exporter and bundles to keep.     *)
(*                                                                         *)
(* The invariant of the indexer stays; about the exporter it says that     *)
(* what was downloaded is content of the version wanted (GotInv, because   *)
(* names are not given to other content); that versions come in order, so  *)
(* that a directory to be replaced is neither the current nor the one      *)
(* before (OrderInv, DirectoryInv, KeptBundles); that a text which is not  *)
(* as new as its document was deleted later (TextedInv); and that what a   *)
(* download still awaits is in the manifest or in the files the publisher  *)
(* spares for one more publication (PreviousInv, GraceInv).                *)
(***************************************************************************)
\* An operation that deleted the URL came after the document.
DeletedAfter(s, doc, url) ==
    \E j \in (doc + 1) .. s.cursor : s.entries[j] = [url |-> url, doc |-> FALSE]

\* The documents of a snapshot have their texts in the store.
Texted(s, stored, v) ==
    \A url \in Url :
        LET doc == LiveIn(v.manifest.layers, v.files, url)
        IN  doc # Dead => stored[url] >= doc \/ DeletedAfter(s, doc, url)

\* They have them in documents.jsonl, except those still to be read.
Lined(s, v, found, rest) ==
    \A url \in Url \ rest :
        LET doc == LiveIn(v.manifest.layers, v.files, url)
        IN  doc # Dead => \/ url \in DOMAIN found /\ found[url] >= doc
                          \/ DeletedAfter(s, doc, url)

Downloading == {"list", "done"}
Exporting   == {"texts", "rename", "point", "prune"}

ReaderInv ==
    /\ at \in {"idle", "manifest"} \cup Downloading \cup Exporting
    /\ at \in Downloading \cup Exporting => held = wanted.manifest
    /\ IsVersion(updates, wanted) /\ AreFiles(updates, got)
    /\ at = "manifest" => got = NoObjects
    /\ at # "list" => queue = {}
    /\ unlisted \in Seq(FileName)
    /\ at = "list" => ToSet(unlisted) \cup queue \subseteq ToSet(held.layers)

\* What was downloaded is what the version stands for.
GotInv ==
    /\ IsMade(local, remote, wanted.files)
    /\ at \in Downloading \cup Exporting =>
          \A n \in DOMAIN got : n \in DOMAIN wanted.files /\ got[n] = wanted.files[n]
    /\ at \in Exporting => DOMAIN got = DOMAIN wanted.files
    /\ \A i \in DOMAIN bundles : bundles[i].files = bundles[i].version.files

IsList(s) == s = [i \in 1 .. Len(s) |-> s[i]] /\ Len(s) \in Nat

\* Each directory has a name of its own.
DirectoryInv ==
    /\ IsList(bundles)
    /\ \A i, j \in DOMAIN bundles : bundles[i].version = bundles[j].version => i = j
    /\ current # NoVersion => current \in VersionsOf(bundles)
    /\ at \in {"manifest", "texts", "rename", "point"} \cup Downloading => wanted # current
    /\ at = "rename" => wanted \notin VersionsOf(bundles)
    /\ at = "point" => Len(bundles) > 0 /\ bundles[Len(bundles)].version = wanted
    /\ at = "prune" => wanted = current

\* A version is older than another, or the same.
Older(v, w) == v.manifest.next < w.manifest.next \/ v = w

OrderInv ==
    /\ Older(pointer, VersionOf(local)) /\ Older(wanted, pointer) /\ Older(current, wanted)
    /\ \/ before.manifest.next < current.manifest.next
       \/ before = NoVersion /\ current = NoVersion
    /\ before.manifest.next \in Nat /\ current.manifest.next \in Nat

\* Where the bundles that are or were current are, if none died.
KeptBundles ==
    /\ at \notin {"point", "prune"} /\ current # NoVersion =>
          bundles[Len(bundles)].version = current
    /\ at = "point" /\ current # NoVersion =>
          Len(bundles) > 1 /\ bundles[Len(bundles) - 1].version = current
    /\ at = "prune" => Len(bundles) > 0 /\ bundles[Len(bundles)].version = current
    /\ at = "prune" /\ before # NoVersion =>
          Len(bundles) > 1 /\ bundles[Len(bundles) - 1].version = before
    /\ before # NoVersion => before \in VersionsOf(bundles)

TextedInv ==
    /\ Texted(updates, texts, pointer) /\ Texted(updates, texts, wanted)
    /\ at = "texts" => Lined(updates, wanted, lines, unread)
    /\ at \in {"rename", "point", "prune"} => Lined(updates, wanted, lines, {})
    /\ \A i \in DOMAIN bundles :
          /\ IsVersion(updates, bundles[i].version)
          /\ Lined(updates, bundles[i].version, bundles[i].lines, {})

\* From a commit to the end of its deletions the publisher spares the files of
\* the manifest before.
PreviousInv ==
    pc \notin {"pointer", "marker", "purge"} => previous = ToSet(manifest.layers)

GraceInv ==
    at = "list" =>
       /\ commits \in Nat
       /\ commits = 0 => held = manifest
       /\ commits = 1 /\ pc \in {"pointer", "marker", "purge"} =>
             ToSet(held.layers) \subseteq previous
       /\ commits <= 1 => ToSet(unlisted) \cup queue \subseteq DOMAIN remote

BundleInv ==
    /\ IndexerInv /\ ReaderInv /\ DirectoryInv
    /\ crashes \in Nat /\ deaths \in Nat
    /\ losses = 0 => GotInv /\ OrderInv /\ TextedInv
    /\ losses = 0 /\ deaths = 0 => KeptBundles
    /\ crashes = 0 => PreviousInv /\ GraceInv

-----------------------------------------------------------------------------
(***************************************************************************)
(* The steps.                                                              *)
(***************************************************************************)
\* The writer's steps and the exporter's, which change different variables.
LEMMA BundleSteps ==
    ASSUME [BundleNext]_<<vars, exportVars>>
    PROVE  /\ [Next]_vars
           /\ \/ WriterStep /\ UNCHANGED exporter
              \/ Export /\ UNCHANGED vars
              \/ Die /\ UNCHANGED vars
              \/ UNCHANGED <<vars, exportVars>>
BY DEF BundleNext, WriterStep

\* What a step of the writer leaves of the exporter.
LEMMA WriterLeaves ==
    ASSUME WriterStep, UNCHANGED exporter
    PROVE  /\ UNCHANGED <<at, wanted, held, unlisted, queue, got>>
           /\ UNCHANGED <<unread, lines, bundles, current, before, deaths>>
BY DEF WriterStep, exporter, directory

LEMMA StreamGrows ==
    ASSUME IndexerInv, [Next]_vars
    PROVE  /\ \A v : IsVersion(updates, v) => IsVersion(updates', v)
           /\ \A f : AreFiles(updates, f) => AreFiles(updates', f)
           /\ \A d, url : DeletedAfter(updates, d, url) /\ d \in Nat
                                => DeletedAfter(updates', d, url)
<1>1. StreamInv /\ BatchInv
  BY DEF IndexerInv
<1>2. StreamInv' /\ GrowsTo(updates, updates')
  BY <1>1, StreamNext DEF Grows
<1>3. /\ updates.cursor \in Nat /\ Len(updates.entries) \in Nat
      /\ updates.cursor <= Len(updates.entries) /\ updates'.cursor \in Nat
  BY <1>1, <1>2, BatchFacts DEF StreamInv, StreamOf
<1>4. \A d, url : DeletedAfter(updates, d, url) /\ d \in Nat
                                => DeletedAfter(updates', d, url)
  <2>1. \A d \in Nat : \A j \in (d + 1) .. updates.cursor :
           j \in (d + 1) .. updates'.cursor /\ updates'.entries[j] = updates.entries[j]
    BY <1>2, <1>3 DEF GrowsTo
  <2> QED
    BY <2>1 DEF DeletedAfter
<1> QED
  BY <1>2, <1>3, <1>4, FilesStay

-----------------------------------------------------------------------------
(***************************************************************************)
(* The download.                                                           *)
(***************************************************************************)
LEMMA TailFacts ==
    ASSUME NEW S, NEW s \in Seq(S), s # <<>>
    PROVE  Tail(s) \in Seq(S) /\ ToSet(Tail(s)) \cup {Head(s)} \subseteq ToSet(s)
<1>1. /\ Tail(s) \in Seq(S)
      /\ Len(Tail(s)) = Len(s) - 1 /\ Len(s) \in Nat
      /\ \A i \in 1 .. Len(Tail(s)) : Tail(s)[i] = s[i + 1]
      /\ Head(s) = s[1] /\ Len(s) > 0
  BY HeadTailProperties
<1>2. \A i \in 1 .. Len(Tail(s)) : i + 1 \in 1 .. Len(s)
  BY <1>1
<1>3. DOMAIN s = 1 .. Len(s) /\ DOMAIN Tail(s) = 1 .. Len(Tail(s))
  BY <1>1
<1>4. 1 \in 1 .. Len(s)
  BY <1>1
<1>5. ToSet(Tail(s)) \cup {Head(s)} \subseteq ToSet(s)
  BY <1>1, <1>2, <1>3, <1>4 DEF ToSet
<1> QED
  BY <1>1, <1>5

LEMMA ReaderNext ==
    ASSUME IndexerInv, ReaderInv, [BundleNext]_<<vars, exportVars>>
    PROVE  ReaderInv'
<1>a. [Next]_vars
  BY BundleSteps
<1>b. /\ IsVersion(updates', wanted) /\ AreFiles(updates', got)
      /\ IsVersion(updates', pointer) /\ AreFiles(updates', remote)
      /\ manifest.layers \in Seq(FileName)
  BY <1>a, StreamGrows DEF ReaderInv, IndexerInv, FileInv, IsManifest
<1>1. CASE UNCHANGED <<vars, exportVars>>
  BY <1>1, <1>b DEF ReaderInv, exportVars, reader
<1>2. CASE WriterStep /\ UNCHANGED exporter
  BY <1>2, <1>b, WriterLeaves DEF ReaderInv
<1>3. CASE StartExport /\ UNCHANGED vars
  <2>1. /\ at = "idle" /\ at' = "manifest" /\ wanted' = pointer /\ got' = NoObjects
        /\ UNCHANGED <<held, unlisted, queue, updates>>
    BY <1>3 DEF StartExport, ReadPointer, vars
  <2> QED
    BY <2>1, <1>b, NoFiles DEF ReaderInv, Downloading, Exporting
<1>4. CASE Download /\ UNCHANGED vars
  <2>1. CASE ReadManifest
    <3>1. /\ at = "manifest" /\ manifest = wanted.manifest /\ held' = manifest
          /\ unlisted' = manifest.layers /\ at' = "list"
          /\ UNCHANGED <<wanted, queue, got>>
      BY <2>1 DEF ReadManifest
    <3>2. queue' = {}
      BY <3>1 DEF ReaderInv
    <3> QED
      BY <3>1, <3>2, <1>b DEF ReaderInv, Downloading, Exporting
  <2>2. CASE ReadManifestChanged
    BY <2>2, <1>b DEF ReadManifestChanged, ReaderInv, Downloading, Exporting
  <2>3. CASE ListSegment
    <3>1. /\ at = "list" /\ at' = "list" /\ unlisted # <<>>
          /\ unlisted' = Tail(unlisted) /\ queue' \subseteq queue \cup {Head(unlisted)}
          /\ UNCHANGED <<wanted, held, got>>
      BY <2>3 DEF ListSegment
    <3>2. /\ Tail(unlisted) \in Seq(FileName)
          /\ ToSet(Tail(unlisted)) \cup {Head(unlisted)} \subseteq ToSet(unlisted)
      BY <3>1, TailFacts DEF ReaderInv
    <3> QED
      BY <3>1, <3>2, <1>b DEF ReaderInv, Downloading, Exporting
  <2>4. CASE GetFile
    <3>1. PICK n \in queue \cap DOMAIN remote :
             got' = PutObject(got, n, remote[n]) /\ queue' = queue \ {n}
      BY <2>4 DEF GetFile
    <3>2. at = "list" /\ at' = "list" /\ UNCHANGED <<wanted, held, unlisted>>
      BY <2>4 DEF GetFile
    <3>3. n \in FileName /\ IsFile(updates', remote[n])
      BY <1>b DEF AreFiles
    <3>4. AreFiles(updates', got')
      BY <3>1, <3>3, <1>b, PutFiles
    <3> QED
      BY <3>1, <3>2, <3>4, <1>b DEF ReaderInv, Downloading, Exporting
  <2>5. CASE GetFileMissing
    BY <2>5, <1>b DEF GetFileMissing, ReaderInv, Downloading, Exporting
  <2>6. CASE Complete
    BY <2>6, <1>b DEF Complete, ReaderInv, Downloading, Exporting
  <2> QED
    BY <1>4, <2>1, <2>2, <2>3, <2>4, <2>5, <2>6 DEF Download
<1>5. CASE OpenIndex /\ UNCHANGED vars
  BY <1>5, <1>b DEF OpenIndex, ReaderInv, Downloading, Exporting
<1>6. CASE ReadText /\ UNCHANGED vars
  BY <1>6, <1>b DEF ReadText, reader, ReaderInv
<1>7. CASE (RemoveTarget \/ Rename \/ PointCurrent) /\ UNCHANGED vars
  BY <1>7, <1>b DEF RemoveTarget, Rename, PointCurrent, ReaderInv, Downloading, Exporting
<1>8. CASE Prune /\ UNCHANGED vars
  BY <1>8, <1>b DEF Prune, ReaderInv, Downloading, Exporting
<1>9. CASE Die /\ UNCHANGED vars
  <2>1. at' = "idle" /\ queue' = {} /\ unlisted' = <<>> /\ UNCHANGED <<wanted, held, got>>
    BY <1>9 DEF Die
  <2>2. <<>> \in Seq(FileName)
    OBVIOUS
  <2> QED
    BY <2>1, <2>2, <1>b DEF ReaderInv, Downloading, Exporting
<1> QED
  BY <1>1, <1>2, <1>3, <1>4, <1>5, <1>6, <1>7, <1>8, <1>9, BundleSteps DEF Export

-----------------------------------------------------------------------------
(***************************************************************************)
(* The directories.                                                        *)
(***************************************************************************)
LEMMA ListIsSeq ==
    ASSUME NEW s, IsList(s)
    PROVE  \E S : s \in Seq(S) /\ DOMAIN s = 1 .. Len(s)
<1> DEFINE S == {s[i] : i \in 1 .. Len(s)}
<1>1. s \in [1 .. Len(s) -> S]
  BY DEF IsList
<1>2. s \in Seq(S)
  BY <1>1, SeqDef DEF IsList
<1> QED
  BY <1>1, <1>2

LEMMA SeqIsList ==
    ASSUME NEW S, NEW s \in Seq(S)
    PROVE  IsList(s)
BY DEF IsList

LEMMA AppendToList ==
    ASSUME NEW s, IsList(s), NEW e
    PROVE  /\ IsList(Append(s, e)) /\ Len(Append(s, e)) = Len(s) + 1
           /\ \A i \in 1 .. Len(s) : Append(s, e)[i] = s[i]
           /\ Append(s, e)[Len(s) + 1] = e
<1>1. PICK S : s \in Seq(S)
  BY ListIsSeq
<1> DEFINE T == S \cup {e}
<1>2. s \in Seq(T) /\ e \in T
  BY <1>1
<1> HIDE DEF T
<1>3. /\ Append(s, e) \in Seq(T) /\ Len(Append(s, e)) = Len(s) + 1
      /\ \A i \in 1 .. Len(s) : Append(s, e)[i] = s[i]
      /\ Append(s, e)[Len(s) + 1] = e
  BY <1>2, AppendProperties
<1>4. IsList(Append(s, e))
  BY <1>3, SeqIsList
<1> QED
  BY <1>3, <1>4

LEMMA RemoveFromList ==
    ASSUME NEW s, IsList(s), NEW i \in 1 .. Len(s)
    PROVE  /\ IsList(RemoveAt(s, i)) /\ Len(RemoveAt(s, i)) = Len(s) - 1
           /\ \A k \in 1 .. Len(s) - 1 :
                 RemoveAt(s, i)[k] = IF k < i THEN s[k] ELSE s[k + 1]
<1>1. PICK S : s \in Seq(S)
  BY ListIsSeq
<1>2. Len(s) \in Nat /\ i \in Nat /\ 1 <= i /\ i <= Len(s)
      /\ \A k \in 1 .. Len(s) : s[k] \in S
  BY <1>1
<1> DEFINE n == Len(s)
           P == SubSeq(s, 1, i - 1)
           Q == SubSeq(s, i + 1, n)
<1>3. (\A k \in 1 .. (i - 1) : k \in 1 .. n) /\ (\A k \in (i + 1) .. n : k \in 1 .. n)
  BY <1>2
<1>4. P \in Seq(S) /\ Q \in Seq(S)
  BY <1>2, <1>3, SubSeqProperties
<1>5. Len(P) = i - 1 /\ \A k \in 1 .. (i - 1) : P[k] = s[k]
  <2>1. Len(P) = (IF 1 <= i - 1 THEN (i - 1) - 1 + 1 ELSE 0)
        /\ \A k \in 1 .. ((i - 1) - 1 + 1) : P[k] = s[1 + k - 1]
    BY <1>2, <1>3, SubSeqProperties
  <2>2. (i - 1) - 1 + 1 = i - 1 /\ (~(1 <= i - 1) => i - 1 = 0)
    BY <1>2
  <2>3. \A k \in 1 .. (i - 1) : 1 + k - 1 = k
    BY <1>2
  <2> QED
    BY <2>1, <2>2, <2>3
<1>6. Len(Q) = n - i /\ \A k \in 1 .. (n - i) : Q[k] = s[i + k]
  <2>1. Len(Q) = (IF i + 1 <= n THEN n - (i + 1) + 1 ELSE 0)
        /\ \A k \in 1 .. (n - (i + 1) + 1) : Q[k] = s[(i + 1) + k - 1]
    BY <1>2, <1>3, SubSeqProperties
  <2>2. n - (i + 1) + 1 = n - i /\ (~(i + 1 <= n) => n - i = 0)
    BY <1>2
  <2>3. \A k \in 1 .. (n - i) : (i + 1) + k - 1 = i + k
    BY <1>2
  <2> QED
    BY <2>1, <2>2, <2>3
<1>7. RemoveAt(s, i) = P \o Q
  BY DEF RemoveAt
<1> HIDE DEF P, Q
<1>8. /\ P \o Q \in Seq(S) /\ Len(P \o Q) = Len(P) + Len(Q)
      /\ \A k \in 1 .. Len(P) + Len(Q) :
            (P \o Q)[k] = IF k <= Len(P) THEN P[k] ELSE Q[k - Len(P)]
  BY <1>4, ConcatProperties
<1>9. Len(P) + Len(Q) = n - 1
  BY <1>2, <1>5, <1>6
<1>10. ASSUME NEW k \in 1 .. (n - 1)
       PROVE  (P \o Q)[k] = IF k < i THEN s[k] ELSE s[k + 1]
  <2>1. CASE k < i
    <3>1. k <= i - 1 /\ k \in 1 .. (i - 1)
      BY <2>1, <1>2
    <3> QED
      BY <1>5, <1>8, <1>9, <2>1, <3>1
  <2>2. CASE ~(k < i)
    <3>1. ~(k <= i - 1) /\ k - (i - 1) \in 1 .. (n - i) /\ i + (k - (i - 1)) = k + 1
      BY <2>2, <1>2
    <3>2. (P \o Q)[k] = Q[k - (i - 1)]
      BY <1>5, <1>8, <1>9, <3>1
    <3> QED
      BY <1>6, <2>2, <3>1, <3>2
  <2> QED
    BY <2>1, <2>2
<1>11. IsList(P \o Q)
  BY <1>8, SeqIsList
<1> QED
  BY <1>7, <1>8, <1>9, <1>10, <1>11

\* The old bundle that goes is not among the newest.
LEMMA PruneFacts ==
    ASSUME IsList(bundles), Prune, bundles' # bundles
    PROVE  \E i \in 1 .. Len(bundles) :
              /\ bundles' = RemoveAt(bundles, i)
              /\ i + KeepBundles <= Len(bundles)
              /\ bundles[i].version # wanted
<1> DEFINE n == Len(bundles)
           old == {i \in DOMAIN bundles : bundles[i].version \notin Newest \cup {wanted}}
<1>1. DOMAIN bundles = 1 .. n /\ n \in Nat /\ KeepBundles \in Nat
  BY ListIsSeq, BundleAssumption DEF IsList
<1>2. old # {} /\ bundles' = RemoveAt(bundles, Max(old))
  BY DEF Prune
<1>3. old \in SUBSET (1 .. n)
  BY <1>1
<1>4. Max(old) \in old
  BY <1>1, <1>2, <1>3, MaxIsLast
<1>5. \A i \in old : ~(i + KeepBundles > n)
  BY DEF Newest
<1>6. \A i \in old : i + KeepBundles <= n /\ bundles[i].version # wanted /\ i \in 1 .. n
  BY <1>1, <1>5
<1> QED
  BY <1>2, <1>4, <1>6

\* The target that goes is the bundle of that name.
LEMMA RemoveTargetFacts ==
    ASSUME IsList(bundles), RemoveTarget
    PROVE  \/ bundles' = bundles /\ \A i \in 1 .. Len(bundles) : bundles[i].version # wanted
           \/ \E i \in 1 .. Len(bundles) :
                 bundles' = RemoveAt(bundles, i) /\ bundles[i].version = wanted
<1> DEFINE n == Len(bundles)
           old == {i \in DOMAIN bundles : bundles[i].version = wanted}
<1>1. DOMAIN bundles = 1 .. n /\ n \in Nat
  BY ListIsSeq DEF IsList
<1>2. bundles' = IF old = {} THEN bundles ELSE RemoveAt(bundles, Max(old))
  BY DEF RemoveTarget
<1>3. CASE old = {}
  BY <1>1, <1>2, <1>3
<1>4. CASE old # {}
  <2>1. old \in SUBSET (1 .. n)
    BY <1>1
  <2>2. Max(old) \in old
    BY <1>1, <1>4, <2>1, MaxIsLast
  <2> QED
    BY <1>2, <1>4, <2>1, <2>2
<1> QED
  BY <1>3, <1>4

\* Which steps change the directories.
LEMMA DirectorySteps ==
    ASSUME [BundleNext]_<<vars, exportVars>>
    PROVE  /\ bundles' = bundles \/ RemoveTarget \/ Rename \/ Prune
           /\ UNCHANGED <<current, before>> \/ PointCurrent
           /\ wanted' = wanted \/ StartExport
           /\ deaths' = deaths \/ Die
<1>1. CASE UNCHANGED <<vars, exportVars>>
  BY <1>1 DEF exportVars, exporter, directory, reader
<1>2. CASE WriterStep /\ UNCHANGED exporter
  BY <1>2, WriterLeaves
<1>3. CASE StartExport \/ Download \/ OpenIndex \/ ReadText
  BY <1>3 DEF StartExport, Download, OpenIndex, ReadText, directory, exporter, reader,
              ReadManifest, ReadManifestChanged, ListSegment, GetFile, GetFileMissing,
              Complete
<1>4. CASE RemoveTarget \/ Rename \/ PointCurrent \/ Prune
  BY <1>4 DEF RemoveTarget, Rename, PointCurrent, Prune
<1>5. CASE Die
  BY <1>5 DEF Die, directory
<1> QED
  BY <1>1, <1>2, <1>3, <1>4, <1>5, BundleSteps DEF Export

NamesDiffer(s) == \A i, j \in DOMAIN s : s[i].version = s[j].version => i = j

LEMMA RemovedVersions ==
    ASSUME NEW s, IsList(s), NamesDiffer(s), NEW i \in 1 .. Len(s)
    PROVE  /\ NamesDiffer(RemoveAt(s, i))
           /\ VersionsOf(RemoveAt(s, i)) = VersionsOf(s) \ {s[i].version}
           /\ \A k \in DOMAIN RemoveAt(s, i) : \E j \in DOMAIN s : RemoveAt(s, i)[k] = s[j]
<1> DEFINE r == RemoveAt(s, i)
           n == Len(s)
           At(k) == IF k < i THEN k ELSE k + 1
<1>1. /\ IsList(r) /\ Len(r) = n - 1 /\ n \in Nat
      /\ \A k \in 1 .. (n - 1) : r[k] = IF k < i THEN s[k] ELSE s[k + 1]
  BY RemoveFromList DEF IsList
<1>2. DOMAIN r = 1 .. (n - 1) /\ DOMAIN s = 1 .. n
  BY <1>1, ListIsSeq
<1> HIDE DEF r, n
<1>3. \A k \in 1 .. (n - 1) : At(k) \in 1 .. n /\ At(k) # i /\ r[k] = s[At(k)]
  BY <1>1
<1>4. \A k, l \in 1 .. (n - 1) : At(k) = At(l) => k = l
  BY <1>1
<1>5. \A j \in 1 .. n : j # i => \E k \in 1 .. (n - 1) : At(k) = j
  <2> TAKE j \in 1 .. n
  <2>0. i \in 1 .. n
    BY DEF n
  <2>1. CASE j < i
    <3>1. j \in 1 .. (n - 1) /\ At(j) = j
      BY <2>1, <2>0, <1>1
    <3> QED
      BY <3>1
  <2>2. CASE j > i
    <3>1. j - 1 \in 1 .. (n - 1) /\ At(j - 1) = j
      BY <2>2, <2>0, <1>1
    <3> QED
      BY <3>1
  <2> QED
    BY <2>0, <2>1, <2>2, <1>1
<1> HIDE DEF At
<1>6. NamesDiffer(r)
  <2> SUFFICES ASSUME NEW k \in 1 .. (n - 1), NEW l \in 1 .. (n - 1),
                      r[k].version = r[l].version
               PROVE  k = l
    BY <1>2 DEF NamesDiffer
  <2>1. At(k) = At(l)
    BY <1>2, <1>3 DEF NamesDiffer
  <2> QED
    BY <2>1, <1>4
<1>7. VersionsOf(r) = VersionsOf(s) \ {s[i].version}
  <2>1. ASSUME NEW k \in 1 .. (n - 1)
        PROVE  r[k].version \in VersionsOf(s) \ {s[i].version}
    <3>1. At(k) \in 1 .. n /\ At(k) # i /\ r[k] = s[At(k)] /\ i \in 1 .. n
      BY <1>3 DEF n
    <3>2. s[At(k)].version # s[i].version
      BY <3>1, <1>2 DEF NamesDiffer
    <3> QED
      BY <3>1, <3>2, <1>2 DEF VersionsOf
  <2>2. ASSUME NEW j \in 1 .. n, s[j].version # s[i].version
        PROVE  s[j].version \in VersionsOf(r)
    <3>1. j # i
      BY <2>2
    <3>2. PICK k \in 1 .. (n - 1) : At(k) = j
      BY <3>1, <1>5
    <3> QED
      BY <3>2, <1>2, <1>3 DEF VersionsOf
  <2> QED
    BY <2>1, <2>2, <1>2 DEF VersionsOf
<1>8. \A k \in DOMAIN r : \E j \in DOMAIN s : r[k] = s[j]
  BY <1>2, <1>3
<1> QED
  BY <1>6, <1>7, <1>8 DEF r

LEMMA AddedVersion ==
    ASSUME NEW s, IsList(s), NamesDiffer(s), NEW e, e.version \notin VersionsOf(s)
    PROVE  /\ NamesDiffer(Append(s, e))
           /\ VersionsOf(Append(s, e)) = VersionsOf(s) \cup {e.version}
           /\ \A k \in DOMAIN Append(s, e) :
                 Append(s, e)[k] = e \/ \E j \in DOMAIN s : Append(s, e)[k] = s[j]
<1> DEFINE r == Append(s, e)
           n == Len(s)
<1>1. /\ IsList(r) /\ Len(r) = n + 1 /\ n \in Nat
      /\ \A i \in 1 .. n : r[i] = s[i]
      /\ r[n + 1] = e
  BY AppendToList DEF IsList
<1>2. DOMAIN r = 1 .. (n + 1) /\ DOMAIN s = 1 .. n
  BY <1>1, ListIsSeq
<1> HIDE DEF r, n
<1>3. \A k \in 1 .. (n + 1) : k \in 1 .. n \/ k = n + 1
  BY <1>1
<1>4. n + 1 \in 1 .. (n + 1) /\ \A k \in 1 .. n : k \in 1 .. (n + 1)
  BY <1>1
<1>5. \A k \in 1 .. n : s[k].version \in VersionsOf(s) /\ s[k].version # e.version
  BY <1>2 DEF VersionsOf
<1>6. NamesDiffer(r)
  BY <1>1, <1>2, <1>3, <1>5 DEF NamesDiffer
<1>7. VersionsOf(r) = VersionsOf(s) \cup {e.version}
  <2>1. \A v \in VersionsOf(r) : v \in VersionsOf(s) \cup {e.version}
    BY <1>1, <1>2, <1>3, <1>5 DEF VersionsOf
  <2>2. e.version \in VersionsOf(r)
    BY <1>1, <1>2, <1>4 DEF VersionsOf
  <2>3. \A v \in VersionsOf(s) : v \in VersionsOf(r)
    BY <1>1, <1>2, <1>4 DEF VersionsOf
  <2> QED
    BY <2>1, <2>2, <2>3
<1>8. \A k \in DOMAIN r : r[k] = e \/ \E j \in DOMAIN s : r[k] = s[j]
  BY <1>1, <1>2, <1>3
<1> QED
  BY <1>6, <1>7, <1>8 DEF r

\* A step adds the staged bundle, or none.
LEMMA BundlesNext ==
    ASSUME DirectoryInv, [BundleNext]_<<vars, exportVars>>
    PROVE  /\ IsList(bundles') /\ NamesDiffer(bundles')
           /\ \A i \in DOMAIN bundles' :
                 \/ Rename /\ bundles'[i] = Staged
                 \/ \E j \in DOMAIN bundles : bundles'[i] = bundles[j]
           /\ RemoveTarget => VersionsOf(bundles') = VersionsOf(bundles) \ {wanted}
           /\ Rename => VersionsOf(bundles') = VersionsOf(bundles) \cup {wanted}
           /\ Prune /\ wanted \in VersionsOf(bundles) => wanted \in VersionsOf(bundles')
           /\ bundles' = bundles \/ RemoveTarget \/ Rename \/ Prune
<1>a. IsList(bundles) /\ NamesDiffer(bundles)
      /\ DOMAIN bundles = 1 .. Len(bundles)
  BY ListIsSeq DEF DirectoryInv, NamesDiffer
<1>1. CASE RemoveTarget
  <2>0. ~Rename /\ ~Prune
    BY <1>1 DEF RemoveTarget, Rename, Prune
  <2>1. CASE bundles' = bundles /\ \A i \in 1 .. Len(bundles) : bundles[i].version # wanted
    <3>1. wanted \notin VersionsOf(bundles)
      BY <2>1, <1>a DEF VersionsOf
    <3> QED
      BY <2>0, <2>1, <3>1, <1>1, <1>a
  <2>2. ASSUME NEW i \in 1 .. Len(bundles), bundles' = RemoveAt(bundles, i),
               bundles[i].version = wanted
        PROVE  /\ IsList(bundles') /\ NamesDiffer(bundles')
               /\ VersionsOf(bundles') = VersionsOf(bundles) \ {wanted}
               /\ \A k \in DOMAIN bundles' : \E j \in DOMAIN bundles : bundles'[k] = bundles[j]
    <3>1. IsList(bundles')
      BY <2>2, <1>a, RemoveFromList
    <3>2. /\ NamesDiffer(bundles')
          /\ VersionsOf(bundles') = VersionsOf(bundles) \ {bundles[i].version}
          /\ \A k \in DOMAIN bundles' : \E j \in DOMAIN bundles : bundles'[k] = bundles[j]
      BY <2>2, <1>a, RemovedVersions
    <3> QED
      BY <2>2, <3>1, <3>2
  <2>3. CASE \E i \in 1 .. Len(bundles) :
                bundles' = RemoveAt(bundles, i) /\ bundles[i].version = wanted
    <3>1. /\ IsList(bundles') /\ NamesDiffer(bundles')
          /\ VersionsOf(bundles') = VersionsOf(bundles) \ {wanted}
          /\ \A k \in DOMAIN bundles' : \E j \in DOMAIN bundles : bundles'[k] = bundles[j]
      BY <2>2, <2>3
    <3> QED
      BY <2>0, <3>1, <1>1
  <2> QED
    BY <2>1, <2>3, <1>1, <1>a, RemoveTargetFacts
<1>2. CASE Rename
  <2>0. ~RemoveTarget /\ ~Prune
    BY <1>2 DEF RemoveTarget, Rename, Prune
  <2>1. bundles' = Append(bundles, Staged) /\ Staged.version = wanted
        /\ wanted \notin VersionsOf(bundles)
    BY <1>2 DEF Rename, Staged, DirectoryInv
  <2> QED
    BY <2>0, <2>1, <1>2, <1>a, AddedVersion, AppendToList
<1>3. CASE Prune /\ bundles' # bundles
  <2>0. ~RemoveTarget /\ ~Rename
    BY <1>3 DEF RemoveTarget, Rename, Prune
  <2>1. PICK i \in 1 .. Len(bundles) :
           bundles' = RemoveAt(bundles, i) /\ bundles[i].version # wanted
    BY <1>3, <1>a, PruneFacts
  <2>2. IsList(bundles')
    BY <2>1, <1>a, RemoveFromList
  <2>3. /\ NamesDiffer(bundles')
        /\ VersionsOf(bundles') = VersionsOf(bundles) \ {bundles[i].version}
        /\ \A k \in DOMAIN bundles' : \E j \in DOMAIN bundles : bundles'[k] = bundles[j]
    BY <2>1, <1>a, RemovedVersions
  <2> QED
    BY <2>0, <2>1, <2>2, <2>3, <1>3
<1>4. CASE bundles' = bundles /\ ~RemoveTarget /\ ~Rename
  BY <1>4, <1>a
<1> QED
  BY <1>1, <1>2, <1>3, <1>4, DirectorySteps

LEMMA DirectoryNext ==
    ASSUME DirectoryInv, [BundleNext]_<<vars, exportVars>>
    PROVE  DirectoryInv'
<1>a. IsList(bundles') /\ NamesDiffer(bundles')
  BY BundlesNext
<1>b. \A i, j \in DOMAIN bundles' : bundles'[i].version = bundles'[j].version => i = j
  BY <1>a DEF NamesDiffer
<1>c. VersionsOf(bundles)' = VersionsOf(bundles')
  BY DEF VersionsOf
<1>1. CASE UNCHANGED <<vars, exportVars>>
  BY <1>1, <1>a, <1>b DEF DirectoryInv, exportVars, exporter, directory, reader, VersionsOf
<1>2. CASE WriterStep /\ UNCHANGED exporter
  BY <1>2, <1>a, <1>b, WriterLeaves DEF DirectoryInv, VersionsOf
<1>3. CASE StartExport
  <2>1. at' = "manifest" /\ wanted' = pointer /\ pointer # current
        /\ UNCHANGED <<bundles, current>>
    BY <1>3 DEF StartExport, ReadPointer, directory
  <2> QED
    BY <2>1, <1>a, <1>b DEF DirectoryInv, VersionsOf, Downloading
<1>4. CASE Download
  <2>1. /\ at \in {"manifest"} \cup Downloading
        /\ at' \in {"idle"} \cup Downloading
        /\ UNCHANGED <<wanted, bundles, current>>
    BY <1>4 DEF Download, ReadManifest, ReadManifestChanged, ListSegment, GetFile,
                GetFileMissing, Complete, exporter, directory, Downloading
  <2> QED
    BY <2>1, <1>a, <1>b DEF DirectoryInv, VersionsOf, Downloading
<1>5. CASE OpenIndex \/ ReadText
  <2>1. /\ at \in {"done", "texts"} /\ at' \in {"idle", "texts"}
        /\ UNCHANGED <<wanted, bundles, current>>
    BY <1>5 DEF OpenIndex, ReadText, reader, directory
  <2> QED
    BY <2>1, <1>a, <1>b DEF DirectoryInv, VersionsOf, Downloading
<1>6. CASE RemoveTarget
  <2>1. /\ at = "texts" /\ at' = "rename"
        /\ UNCHANGED <<wanted, current>> /\ wanted # current
    BY <1>6 DEF RemoveTarget, DirectoryInv
  <2>2. VersionsOf(bundles') = VersionsOf(bundles) \ {wanted}
    BY <1>6, BundlesNext
  <2> QED
    BY <2>1, <2>2, <1>a, <1>b, <1>c DEF DirectoryInv
<1>7. CASE Rename
  <2>1. /\ at = "rename" /\ at' = "point" /\ bundles' = Append(bundles, Staged)
        /\ UNCHANGED <<wanted, current>> /\ wanted # current
    BY <1>7 DEF Rename, DirectoryInv
  <2>2. VersionsOf(bundles') = VersionsOf(bundles) \cup {wanted}
    BY <1>7, BundlesNext
  <2>3. Len(bundles') > 0 /\ bundles'[Len(bundles')].version = wanted
    <3>1. Len(bundles') = Len(bundles) + 1 /\ bundles'[Len(bundles) + 1] = Staged
      BY <2>1, AppendToList DEF DirectoryInv
    <3> QED
      BY <3>1 DEF Staged, DirectoryInv, IsList
  <2> QED
    BY <2>1, <2>2, <2>3, <1>a, <1>b, <1>c DEF DirectoryInv
<1>8. CASE PointCurrent
  <2>1. /\ at = "point" /\ at' = "prune" /\ current' = wanted
        /\ UNCHANGED <<wanted, bundles>>
    BY <1>8 DEF PointCurrent
  <2>2. wanted \in VersionsOf(bundles)
    <3>1. Len(bundles) \in DOMAIN bundles
      BY <2>1, ListIsSeq DEF DirectoryInv, IsList
    <3> QED
      BY <2>1, <3>1 DEF DirectoryInv, VersionsOf
  <2> QED
    BY <2>1, <2>2, <1>a, <1>b, <1>c DEF DirectoryInv, Downloading
<1>9. CASE Prune
  <2>1. /\ at = "prune" /\ at' \in {"prune", "idle"}
        /\ UNCHANGED <<wanted, current>> /\ wanted = current
    BY <1>9 DEF Prune, DirectoryInv
  <2>2. wanted \in VersionsOf(bundles) => wanted \in VersionsOf(bundles')
    BY <1>9, BundlesNext
  <2> QED
    BY <2>1, <2>2, <1>a, <1>b, <1>c DEF DirectoryInv, Downloading
<1>10. CASE Die
  <2>1. at' = "idle" /\ UNCHANGED <<bundles, current>>
    BY <1>10 DEF Die, directory
  <2> QED
    BY <2>1, <1>a, <1>b, <1>c DEF DirectoryInv, Downloading
<1> QED
  BY <1>1, <1>2, <1>3, <1>4, <1>5, <1>6, <1>7, <1>8, <1>9, <1>10, BundleSteps DEF Export

-----------------------------------------------------------------------------
(***************************************************************************)
(* What is downloaded.                                                     *)
(***************************************************************************)
\* A name of the files wanted is not used for other content.
LEMMA GotNext ==
    ASSUME IndexerInv, ReaderInv, GotInv, DirectoryInv, losses' = 0,
           [BundleNext]_<<vars, exportVars>>
    PROVE  GotInv'
<1>a. /\ [Next]_vars /\ losses = 0 /\ ~LoseVolume
      /\ StreamInv /\ BatchInv /\ FileInv /\ KeptInv
  BY BundleSteps, LossesCount DEF IndexerInv
<1>b. /\ IsMade(local', remote', wanted.files) /\ IsMade(local', remote', pointer.files)
  BY <1>a, MadeNext DEF ReaderInv, IsVersion, FileInv, GotInv, KeptInv
<1>c. IsMade(local', remote', wanted'.files)
  <2>1. StartExport => wanted' = pointer
    BY DEF StartExport, ReadPointer
  <2> QED
    BY <1>b, <2>1, DirectorySteps
<1>d. \A i \in DOMAIN bundles' : ~Rename => bundles'[i].files = bundles'[i].version.files
  BY BundlesNext DEF GotInv
<1> SUFFICES /\ at' \in Downloading \cup Exporting =>
                   \A n \in DOMAIN got' : n \in DOMAIN wanted'.files
                                          /\ got'[n] = wanted'.files[n]
             /\ at' \in Exporting => DOMAIN got' = DOMAIN wanted'.files
             /\ Rename => Staged.files = Staged.version.files
  BY <1>c, <1>d, BundlesNext DEF GotInv
<1>1. CASE UNCHANGED <<vars, exportVars>>
  BY <1>1 DEF GotInv, exportVars, exporter, directory, reader, Rename
<1>2. CASE WriterStep /\ UNCHANGED exporter
  BY <1>2, WriterLeaves DEF GotInv, Rename
<1>3. CASE StartExport
  BY <1>3 DEF StartExport, ReadPointer, Rename, Downloading, Exporting
<1>4. CASE Download /\ UNCHANGED vars
  <2>0. /\ at \in {"manifest"} \cup Downloading /\ at' \notin Exporting
        /\ wanted' = wanted /\ ~Rename
    BY <1>4 DEF Download, ReadManifest, ReadManifestChanged, ListSegment, GetFile,
                GetFileMissing, Complete, Downloading, Exporting, Rename
  <2>1. CASE GetFile
    <3>1. PICK n \in queue \cap DOMAIN remote : got' = PutObject(got, n, remote[n])
      BY <2>1 DEF GetFile
    <3>2. n \in ToSet(wanted.manifest.layers) /\ at = "list"
      BY <2>1 DEF GetFile, ReaderInv, Downloading
    <3>3. n \in DOMAIN wanted.files /\ remote[n] = wanted.files[n]
      BY <3>2, <3>1 DEF ReaderInv, IsVersion, GotInv, IsMade
    <3> QED
      BY <2>0, <3>1, <3>2, <3>3 DEF GotInv, PutObject, Downloading
  <2>2. CASE ReadManifest
    <3>1. got' = NoObjects
      BY <2>2 DEF ReadManifest, ReaderInv
    <3> QED
      BY <2>0, <3>1, NoFiles
  <2>3. CASE ~GetFile /\ ~ReadManifest
    <3>1. got' = got /\ (at' \in Downloading => at \in Downloading)
      BY <2>3, <1>4 DEF Download, ReadManifestChanged, ListSegment,
                GetFileMissing, Complete, Downloading
    <3> QED
      BY <2>0, <3>1 DEF GotInv
  <2> QED
    BY <2>1, <2>2, <2>3
<1>5. CASE OpenIndex
  <2>1. /\ at = "done" /\ UNCHANGED <<got, wanted>> /\ ~Rename
        /\ at' \in Downloading \cup Exporting => at' = "texts" /\ DOMAIN got = Layers
    BY <1>5 DEF OpenIndex, Rename, Downloading, Exporting
  <2>2. Layers = DOMAIN wanted.files
    BY <2>1 DEF Layers, ReaderInv, IsVersion, Downloading
  <2> QED
    BY <2>1, <2>2 DEF GotInv, Downloading
<1>6. CASE ReadText \/ RemoveTarget \/ PointCurrent \/ Prune
  <2>1. at \in Exporting /\ UNCHANGED <<got, wanted>> /\ ~Rename
    BY <1>6 DEF ReadText, RemoveTarget, PointCurrent, Prune, reader, Exporting, Rename
  <2> QED
    BY <2>1 DEF GotInv
<1>7. CASE Rename
  <2>1. at = "rename" /\ UNCHANGED <<got, wanted>>
    BY <1>7 DEF Rename
  <2>2. AreFiles(updates, got) /\ AreFiles(updates, wanted.files)
    BY DEF ReaderInv, IsVersion
  <2>3. DOMAIN got = DOMAIN wanted.files
        /\ \A n \in DOMAIN got : got[n] = wanted.files[n]
    BY <2>1 DEF GotInv, Exporting
  <2>4. got = wanted.files
    BY <2>2, <2>3 DEF AreFiles
  <2> QED
    BY <2>1, <2>3, <2>4 DEF Staged
<1>8. CASE Die
  BY <1>8 DEF Die, Downloading, Exporting, Rename
<1> QED
  BY <1>1, <1>2, <1>3, <1>4, <1>5, <1>6, <1>7, <1>8, BundleSteps DEF Export

-----------------------------------------------------------------------------
(***************************************************************************)
(* Versions come in order.                                                 *)
(***************************************************************************)
LEMMA OlderIsTransitive ==
    ASSUME NEW u, NEW v, NEW w, Older(u, v), Older(v, w),
           u.manifest.next \in Nat, v.manifest.next \in Nat, w.manifest.next \in Nat
    PROVE  Older(u, w)
BY DEF Older

LEMMA OrderNext ==
    ASSUME IndexerInv, ReaderInv, OrderInv, DirectoryInv, losses' = 0,
           [BundleNext]_<<vars, exportVars>>
    PROVE  OrderInv'
<1>a. /\ [Next]_vars /\ losses = 0 /\ ~LoseVolume
      /\ StreamInv /\ BatchInv /\ FileInv /\ KeptInv
  BY BundleSteps, LossesCount DEF IndexerInv
<1>b. /\ IsVersion(updates', pointer) /\ IsVersion(updates', wanted)
      /\ local.next \in Nat /\ FileInv' /\ ReaderInv'
  BY <1>a, StreamGrows, ReaderNext, IndexerNext DEF IndexerInv, ReaderInv, FileInv, IsIndex
<1>c. /\ pointer.manifest.next \in Nat /\ wanted.manifest.next \in Nat
      /\ pointer'.manifest.next \in Nat /\ wanted'.manifest.next \in Nat
      /\ current.manifest.next \in Nat
  BY <1>b DEF FileInv, ReaderInv, IsVersion, IsManifest, OrderInv
<1>d. VersionOf(local).manifest.next = local.next
      /\ VersionOf(local') = VersionOf(local)'
      /\ VersionOf(local').manifest.next = local'.next
  BY DEF VersionOf, ManifestOf
<1>1. Older(pointer', VersionOf(local')) /\ Older(pointer, pointer')
  <2>1. CASE local' # local
    <3>1. pointer' = pointer
      BY <2>1, <1>a, PointerSteps DEF PutPointer, volume
    <3>2. local'.next = local.next + 1
      BY <2>1, <1>a, LocalSteps, MadeNext
    <3>3. pointer.manifest.next <= local.next
      BY <1>b, <1>c, <1>d DEF OrderInv, Older
    <3> QED
      BY <3>1, <3>2, <3>3, <1>b, <1>c, <1>d DEF Older
  <2>2. CASE local' = local /\ PutPointer
    BY <2>2 DEF PutPointer, OrderInv, Older
  <2>3. CASE local' = local /\ pointer' = pointer
    BY <2>3 DEF OrderInv, Older
  <2> QED
    BY <2>1, <2>2, <2>3, <1>a, PointerSteps
<1>2. Older(wanted, pointer') /\ Older(current, pointer')
  BY <1>1, <1>c, OlderIsTransitive DEF OrderInv
<1>3. CASE StartExport /\ UNCHANGED vars
  <2>1. wanted' = pointer /\ pointer' = pointer /\ UNCHANGED <<current, before>>
    BY <1>3 DEF StartExport, ReadPointer, vars, storage, directory
  <2>2. Older(wanted', pointer') /\ Older(current', wanted')
    BY <2>1, <1>2 DEF Older
  <2> QED
    BY <2>1, <2>2, <1>1, <1>d DEF OrderInv
<1>4. CASE PointCurrent
  <2>1. wanted' = wanted /\ current' = wanted /\ before' = current /\ wanted # current
    BY <1>4 DEF PointCurrent, DirectoryInv
  <2>2. current.manifest.next < wanted.manifest.next
    BY <2>1 DEF OrderInv, Older
  <2>3. Older(current', wanted')
    BY <2>1 DEF Older
  <2> QED
    BY <2>1, <2>2, <2>3, <1>1, <1>2, <1>c, <1>d DEF OrderInv
<1>5. CASE UNCHANGED <<wanted, current, before>>
  BY <1>5, <1>1, <1>2, <1>d DEF OrderInv
<1>6. StartExport => StartExport /\ UNCHANGED vars
  BY BundleSteps DEF StartExport, ReadPointer, WriterStep, Die, exportVars, reader
<1> QED
  BY <1>3, <1>4, <1>5, <1>6, DirectorySteps

-----------------------------------------------------------------------------
(***************************************************************************)
(* The bundles that may be open.                                           *)
(***************************************************************************)
\* The last bundles stay the last if an earlier one goes.
LEMMA LastStay ==
    ASSUME NEW s, IsList(s), NEW i \in 1 .. Len(s)
    PROVE  /\ Len(RemoveAt(s, i)) = Len(s) - 1 /\ Len(s) \in Nat
           /\ i < Len(s) => RemoveAt(s, i)[Len(s) - 1] = s[Len(s)]
           /\ i + 1 < Len(s) => /\ RemoveAt(s, i)[Len(s) - 1 - 1] = s[Len(s) - 1]
                                /\ Len(s) - 1 - 1 \in DOMAIN RemoveAt(s, i)
<1>1. Len(s) \in Nat /\ i \in Nat /\ i >= 1
  BY DEF IsList
<1>2. IsList(RemoveAt(s, i)) /\ Len(RemoveAt(s, i)) = Len(s) - 1
      /\ \A k \in 1 .. Len(s) - 1 :
            RemoveAt(s, i)[k] = IF k < i THEN s[k] ELSE s[k + 1]
  BY RemoveFromList
<1>3. DOMAIN RemoveAt(s, i) = 1 .. (Len(s) - 1)
  BY <1>2, ListIsSeq
<1>4. ASSUME i < Len(s) PROVE RemoveAt(s, i)[Len(s) - 1] = s[Len(s)]
  <2>1. Len(s) - 1 \in 1 .. Len(s) - 1 /\ ~(Len(s) - 1 < i) /\ (Len(s) - 1) + 1 = Len(s)
    BY <1>1, <1>4
  <2> QED
    BY <1>2, <2>1
<1>5. ASSUME i + 1 < Len(s)
      PROVE  /\ RemoveAt(s, i)[Len(s) - 1 - 1] = s[Len(s) - 1]
             /\ Len(s) - 1 - 1 \in DOMAIN RemoveAt(s, i)
  <2>1. /\ Len(s) - 1 - 1 \in 1 .. Len(s) - 1 /\ ~(Len(s) - 1 - 1 < i)
        /\ (Len(s) - 1 - 1) + 1 = Len(s) - 1
    BY <1>1, <1>5
  <2> QED
    BY <1>2, <1>3, <2>1
<1> QED
  BY <1>1, <1>2, <1>4, <1>5

LEMMA KeptBundlesNext ==
    ASSUME IndexerInv, ReaderInv, DirectoryInv, OrderInv, KeptBundles,
           losses' = 0, deaths' = 0, deaths \in Nat, [BundleNext]_<<vars, exportVars>>
    PROVE  KeptBundles'
<1> DEFINE n == Len(bundles)
<1>a. ~Die
  BY DEF Die
<1>b. IsList(bundles) /\ DOMAIN bundles = 1 .. n /\ n \in Nat
  BY ListIsSeq DEF DirectoryInv, IsList
<1>c. current # NoVersion => n > 0
  <2>1. current # NoVersion => \E i \in DOMAIN bundles : TRUE
    BY DEF DirectoryInv, VersionsOf
  <2> QED
    BY <2>1, <1>b
<1>d. VersionsOf(bundles)' = VersionsOf(bundles')
  BY DEF VersionsOf
<1>1. CASE UNCHANGED <<bundles, current, before>>
           /\ (at' = at \/ {at, at'} \cap {"point", "prune"} = {})
  BY <1>1 DEF KeptBundles, VersionsOf
<1>2. CASE WriterStep /\ UNCHANGED exporter
  BY <1>2, <1>1, WriterLeaves
<1>3. CASE UNCHANGED <<vars, exportVars>>
  BY <1>3, <1>1 DEF exportVars, exporter, directory, reader
<1>4. CASE StartExport \/ Download \/ OpenIndex \/ ReadText
  <2>1. UNCHANGED <<bundles, current, before>>
    BY <1>4 DEF StartExport, Download, OpenIndex, ReadText, exporter, directory
  <2>2. at' = at \/ {at, at'} \cap {"point", "prune"} = {}
    BY <1>4 DEF StartExport, ReadPointer, Download, ReadManifest, ReadManifestChanged,
                ListSegment, GetFile, GetFileMissing, Complete, OpenIndex, ReadText, reader
  <2> QED
    BY <2>1, <2>2, <1>1
<1>5. CASE RemoveTarget
  <2>1. at = "texts" /\ at' = "rename" /\ UNCHANGED <<current, before>>
        /\ wanted # current
    BY <1>5 DEF RemoveTarget, DirectoryInv
  <2>2. before # NoVersion => before # wanted
    BY DEF OrderInv, Older
  <2>3. VersionsOf(bundles') = VersionsOf(bundles) \ {wanted}
    BY <1>5, BundlesNext
  <2>4. ASSUME current # NoVersion PROVE bundles'[Len(bundles')].version = current
    <3>1. bundles[n].version = current
      BY <2>1, <2>4 DEF KeptBundles
    <3>2. CASE bundles' = bundles
      BY <3>1, <3>2
    <3>3. CASE bundles' # bundles
      <4>1. PICK i \in 1 .. n : bundles' = RemoveAt(bundles, i) /\ bundles[i].version = wanted
        BY <3>3, <1>5, <1>b, RemoveTargetFacts
      <4>2. i # n
        BY <4>1, <3>1, <2>1
      <4>3. i < n
        <5>1. \A m \in Nat : \A k \in 1 .. m : k # m => k < m
          OBVIOUS
        <5> QED
          BY <5>1, <4>2, <1>b
      <4>4. bundles'[n - 1] = bundles[n] /\ Len(bundles') = n - 1
        BY <4>1, <4>3, <1>b, LastStay
      <4> QED
        BY <4>4, <3>1
    <3> QED
      BY <3>2, <3>3
  <2> QED
    BY <2>1, <2>2, <2>3, <2>4, <1>d DEF KeptBundles
<1>6. CASE Rename
  <2>1. at = "rename" /\ at' = "point" /\ UNCHANGED <<current, before>>
        /\ bundles' = Append(bundles, Staged)
    BY <1>6 DEF Rename
  <2>2. VersionsOf(bundles') = VersionsOf(bundles) \cup {wanted}
    BY <1>6, BundlesNext
  <2>3. Len(bundles') = n + 1 /\ \A i \in 1 .. n : bundles'[i] = bundles[i]
    BY <2>1, <1>b, AppendToList
  <2>4. ASSUME current # NoVersion
        PROVE  Len(bundles') > 1 /\ bundles'[Len(bundles') - 1].version = current
    <3>1. bundles[n].version = current /\ n > 0
      BY <2>1, <2>4, <1>c DEF KeptBundles
    <3>2. n \in 1 .. n /\ n + 1 > 1 /\ (n + 1) - 1 = n
      BY <3>1, <1>b
    <3> QED
      BY <3>1, <3>2, <2>3
  <2> QED
    BY <2>1, <2>2, <2>4, <1>d DEF KeptBundles
<1>7. CASE PointCurrent
  <2>1. at = "point" /\ at' = "prune" /\ current' = wanted /\ before' = current
        /\ bundles' = bundles
    BY <1>7 DEF PointCurrent
  <2>2. n > 0 /\ bundles[n].version = wanted
    BY <2>1 DEF DirectoryInv
  <2>3. current # NoVersion => /\ n > 1 /\ bundles[n - 1].version = current
                               /\ current \in VersionsOf(bundles)
    BY <2>1 DEF DirectoryInv, KeptBundles
  <2> QED
    BY <2>1, <2>2, <2>3, <1>d DEF KeptBundles
<1>8. CASE Prune
  <2>1. at = "prune" /\ UNCHANGED <<current, before>>
    BY <1>8 DEF Prune
  <2>2. CASE bundles' = bundles
    <3>1. at' \in {"prune", "idle"}
      BY <1>8 DEF Prune
    <3> QED
      BY <2>1, <2>2, <3>1 DEF KeptBundles, VersionsOf
  <2>3. CASE bundles' # bundles
    <3>1. PICK i \in 1 .. n : bundles' = RemoveAt(bundles, i) /\ i + KeepBundles <= n
      BY <1>8, <2>3, <1>b, PruneFacts
    <3>2. at' = "prune"
      BY <1>8, <2>3 DEF Prune
    <3>3. i < n /\ i + 1 < n /\ n - 1 > 1 /\ n - 1 > 0
      BY <3>1, <1>b, BundleAssumption
    <3>5. bundles'[n - 1] = bundles[n] /\ Len(bundles') = n - 1
      BY <3>1, <3>3, <1>b, LastStay
    <3>6. bundles'[n - 1 - 1] = bundles[n - 1] /\ n - 1 - 1 \in DOMAIN bundles'
      BY <3>1, <3>3, <1>b, LastStay
    <3>7. before # NoVersion => before \in VersionsOf(bundles')
      BY <3>6, <2>1 DEF KeptBundles, VersionsOf
    <3> QED
      BY <2>1, <3>2, <3>3, <3>5, <3>6, <3>7, <1>d DEF KeptBundles
  <2> QED
    BY <2>2, <2>3
<1> QED
  BY <1>2, <1>3, <1>4, <1>5, <1>6, <1>7, <1>8, <1>a, BundleSteps DEF Export

-----------------------------------------------------------------------------
(***************************************************************************)
(* The texts of what is wanted and exported.                               *)
(***************************************************************************)
LEMMA VersionFacts ==
    ASSUME IndexerInv, NEW v, IsVersion(updates, v), NEW url
    PROVE  /\ LiveIn(v.manifest.layers, v.files, url) \in Nat
           /\ LiveIn(v.manifest.layers, v.files, url) # Dead =>
                 Brought(updates, LiveIn(v.manifest.layers, v.files, url), url)
<1>1. updates.cursor \in Nat /\ v.manifest.layers \in Seq(FileName)
      /\ AreFiles(updates, v.files)
  BY BatchFacts DEF IndexerInv, IsVersion, IsManifest
<1> QED
  BY <1>1, LiveIsBrought

\* A text goes only if a message that deletes its URL came after the document.
LEMMA TextedStays ==
    ASSUME IndexerInv, losses = 0, [Next]_vars, NEW v, IsVersion(updates, v),
           Texted(updates, texts, v)
    PROVE  Texted(updates', texts', v)
<1>a. StreamInv /\ BatchInv /\ TextInv /\ TextsAreThere
  BY DEF IndexerInv
<1> SUFFICES ASSUME NEW url \in Url, NEW doc,
                    doc = LiveIn(v.manifest.layers, v.files, url), doc # Dead,
                    ~DeletedAfter(updates', doc, url)
             PROVE  texts'[url] >= doc
  BY DEF Texted
<1>1. doc \in Nat /\ Brought(updates, doc, url)
  BY VersionFacts
<1>2. ~DeletedAfter(updates, doc, url)
  BY <1>1, StreamGrows
<1>3. texts[url] >= doc
  BY <1>2 DEF Texted
<1>4. texts[url] \in Nat /\ texts \in [Url -> 0 .. updates.cursor]
  BY <1>a, BatchFacts DEF TextInv
<1>5. CASE texts' = texts
  BY <1>5, <1>3
<1>6. CASE PutText
  <2> DEFINE i == Min(todo)
  <2>1. /\ i \in Upserts /\ i \in todo
        /\ texts' = [texts EXCEPT ![Message(i).url] = i]
    BY <1>6, <1>a, TextWritten
  <2>2. texts[Message(i).url] < i
    BY <1>6, <1>a, <2>1 DEF TextsAreThere, PutText
  <2>3. i \in Nat
    BY <1>a, <2>1, BatchFacts DEF BatchInv
  <2> HIDE DEF i
  <2>4. CASE url = Message(i).url
    <3>1. texts'[url] = i /\ texts[url] < i
      BY <2>1, <2>2, <2>4, <1>4
    <3> QED
      BY <3>1, <2>3, <1>1, <1>3, <1>4
  <2>5. CASE url # Message(i).url
    BY <2>1, <2>5, <1>3, <1>4
  <2> QED
    BY <2>4, <2>5
<1>7. CASE DeleteText
  <2> DEFINE i == Min(todo)
  <2>1. /\ i \in Deletes /\ Message(i).url \in Url
        /\ texts' = [texts EXCEPT ![Message(i).url] = Dead]
    BY <1>7, <1>a, TextWritten
  <2> HIDE DEF i
  <2>2. CASE url = Message(i).url
    <3>1. /\ i \in Coalesced /\ ~Message(i).doc /\ i \in Collected
          /\ Message(i) \in Update /\ i \in 1 .. updates.cursor
      BY <2>1, <1>a, UpsertFacts, CoalescedFacts, BatchFacts DEF Deletes
    <3>2. updates.entries[i] = [url |-> url, doc |-> FALSE]
      BY <2>2, <3>1 DEF Message, Update
    <3>3. /\ updates.entries[doc].doc /\ doc \in 1 .. updates.cursor
          /\ Valid(doc) /\ Message(doc).url = url
      BY <1>1 DEF Brought, Message, Valid
    <3>4. doc # i
      BY <3>1, <3>3 DEF Message
    <3>5. doc <= i
      <4>1. CASE doc \in Collected
        BY <4>1, <2>2, <3>1, <3>3, <1>a, CoalescedFacts
      <4>2. CASE doc \notin Collected
        <5>1. batch.last = updates.cursor
          BY <3>1, <1>a DEF BatchInv
        <5>2. /\ batch.first \in Nat /\ batch.last \in Nat
              /\ doc \notin batch.first .. batch.last /\ i \in batch.first .. batch.last
          BY <4>2, <3>1, <1>a, BatchFacts DEF Collected
        <5> QED
          BY <5>1, <5>2, <3>3
      <4> QED
        BY <4>1, <4>2
    <3>6. i \in (doc + 1) .. updates.cursor
      BY <3>1, <3>3, <3>4, <3>5
    <3>7. DeletedAfter(updates, doc, url)
      BY <3>2, <3>6 DEF DeletedAfter
    <3> QED
      BY <3>7, <1>2
  <2>3. CASE url # Message(i).url
    BY <2>1, <2>3, <1>3, <1>4
  <2> QED
    BY <2>2, <2>3
<1> QED
  BY <1>5, <1>6, <1>7, TextSteps

LEMMA LinedStays ==
    ASSUME IndexerInv, [Next]_vars, NEW v, IsVersion(updates, v), NEW found, NEW rest,
           Lined(updates, v, found, rest)
    PROVE  Lined(updates', v, found, rest)
<1> SUFFICES ASSUME NEW url \in Url \ rest, NEW doc,
                    doc = LiveIn(v.manifest.layers, v.files, url), doc # Dead,
                    ~DeletedAfter(updates', doc, url)
             PROVE  url \in DOMAIN found /\ found[url] >= doc
  BY DEF Lined
<1>1. doc \in Nat
  BY VersionFacts
<1>2. ~DeletedAfter(updates, doc, url)
  BY <1>1, StreamGrows
<1> QED
  BY <1>2 DEF Lined

\* What is published has its texts.
LEMMA CommitIsTexted ==
    ASSUME IndexerInv, losses = 0
    PROVE  Texted(updates, texts, VersionOf(local))
<1>1. FileInv /\ KeptInv /\ TextsAreThere /\ StreamInv /\ BatchInv /\ TextInv
  BY DEF IndexerInv
<1> DEFINE v == VersionOf(local)
<1>2. /\ v.manifest.layers = local.layers /\ local.layers \in Seq(FileName)
      /\ \A n \in ToSet(local.layers) : /\ n \in DOMAIN v.files /\ n \in DOMAIN local.files
                                        /\ v.files[n] = local.files[n]
  BY <1>1, VersionIsMade DEF ManifestOf, FileInv, IsIndex, FilesOf
<1> HIDE DEF v
<1>3. ASSUME NEW url \in Url PROVE texts[url] >= LiveIn(v.manifest.layers, v.files, url)
  <2>1. LiveIn(v.manifest.layers, v.files, url) = Live(url)
    BY <1>2, LiveSame DEF Live
  <2>2. Live(url) <= texts[url]
    BY <1>1 DEF TextsAreThere
  <2>3. texts[url] \in Nat /\ updates.cursor \in Nat
    BY <1>1, BatchFacts DEF TextInv
  <2>4. Live(url) \in Nat
    BY <1>1, <1>2, <2>3, LiveIsBrought DEF Live, FileInv, IsIndex
  <2> QED
    BY <2>1, <2>2, <2>3, <2>4
<1> QED
  BY <1>3 DEF Texted, v

LEMMA TextedNext ==
    ASSUME IndexerInv, ReaderInv, DirectoryInv, GotInv, TextedInv, losses' = 0,
           [BundleNext]_<<vars, exportVars>>
    PROVE  TextedInv'
<1>a. /\ [Next]_vars /\ losses = 0
      /\ IsVersion(updates, pointer) /\ IsVersion(updates, wanted)
      /\ IsVersion(updates', pointer) /\ IsVersion(updates', wanted)
  BY BundleSteps, LossesCount, StreamGrows DEF IndexerInv, ReaderInv, FileInv
<1>b. /\ Texted(updates', texts', pointer) /\ Texted(updates', texts', wanted)
  BY <1>a, TextedStays DEF TextedInv
<1>c. Texted(updates', texts', pointer')
  <2>1. CASE pointer' = pointer
    BY <2>1, <1>b
  <2>2. CASE PutPointer
    <3>1. pointer' = VersionOf(local) /\ updates' = updates /\ texts' = texts
      BY <2>2 DEF PutPointer
    <3> QED
      BY <3>1, <1>a, CommitIsTexted
  <2> QED
    BY <2>1, <2>2, <1>a, PointerSteps
<1>d. Texted(updates', texts', wanted')
  <2>1. StartExport => wanted' = pointer
    BY DEF StartExport, ReadPointer
  <2> QED
    BY <1>b, <2>1, DirectorySteps
<1>e. /\ \A found, rest : Lined(updates, wanted, found, rest)
                             => Lined(updates', wanted, found, rest)
      /\ \A i \in DOMAIN bundles :
            /\ IsVersion(updates', bundles[i].version)
            /\ Lined(updates', bundles[i].version, bundles[i].lines, {})
  BY <1>a, LinedStays, StreamGrows DEF TextedInv
<1>f. \A i \in DOMAIN bundles' :
         /\ IsVersion(updates', bundles'[i].version)
         /\ Lined(updates', bundles'[i].version, bundles'[i].lines, {})
  <2>1. ASSUME Rename
        PROVE  /\ IsVersion(updates', Staged.version)
               /\ Lined(updates', Staged.version, Staged.lines, {})
    <3>1. Staged.version = wanted /\ Staged.lines = lines
      BY DEF Staged
    <3>2. Lined(updates, wanted, lines, {})
      BY <2>1 DEF Rename, TextedInv
    <3> QED
      BY <3>1, <3>2, <1>a, <1>e
  <2> QED
    BY <2>1, <1>e, BundlesNext
<1> SUFFICES /\ at' = "texts" => Lined(updates', wanted', lines', unread')
             /\ at' \in {"rename", "point", "prune"} => Lined(updates', wanted', lines', {})
  BY <1>c, <1>d, <1>f DEF TextedInv
<1>1. CASE UNCHANGED <<at, wanted, lines, unread>>
  BY <1>1, <1>e DEF TextedInv
<1>2. CASE WriterStep /\ UNCHANGED exporter
  BY <1>2, <1>1, WriterLeaves
<1>3. CASE UNCHANGED <<vars, exportVars>>
  BY <1>3, <1>1 DEF exportVars, exporter, reader
<1>4. CASE StartExport \/ Download \/ Die
  BY <1>4 DEF StartExport, ReadPointer, Download, ReadManifest, ReadManifestChanged,
              ListSegment, GetFile, GetFileMissing, Complete, Die
<1>5. CASE OpenIndex
  <2> SUFFICES ASSUME at' = "texts", NEW url \in Url \ unread'
               PROVE  LiveIn(wanted.manifest.layers, wanted.files, url) = Dead
    BY <1>5 DEF OpenIndex, Lined
  <2>1. at = "done" /\ DOMAIN got = Layers /\ unread' = LiveUrls(got)
    BY <1>5 DEF OpenIndex
  <2>2. held = wanted.manifest /\ wanted.manifest.layers \in Seq(FileName)
    BY <2>1 DEF ReaderInv, IsVersion, IsManifest, Downloading
  <2>3. \A n \in ToSet(wanted.manifest.layers) :
           n \in DOMAIN got /\ n \in DOMAIN wanted.files /\ got[n] = wanted.files[n]
    BY <2>1, <2>2 DEF GotInv, Layers, Downloading
  <2>4. LiveIn(wanted.manifest.layers, got, url)
           = LiveIn(wanted.manifest.layers, wanted.files, url)
    BY <2>2, <2>3, LiveSame
  <2> QED
    BY <2>1, <2>2, <2>4 DEF LiveUrls
<1>6. CASE ReadText /\ UNCHANGED vars
  <2>1. PICK url \in unread :
           /\ lines' = IF texts[url] = Dead THEN lines ELSE PutObject(lines, url, texts[url])
           /\ unread' = unread \ {url}
    BY <1>6 DEF ReadText
  <2>2. /\ at = "texts" /\ at' = "texts" /\ wanted' = wanted
        /\ updates' = updates
    BY <1>6 DEF ReadText, reader, vars
  <2> SUFFICES ASSUME NEW u \in Url \ unread', NEW doc,
                      doc = LiveIn(wanted.manifest.layers, wanted.files, u), doc # Dead,
                      ~DeletedAfter(updates, doc, u)
               PROVE  u \in DOMAIN lines' /\ lines'[u] >= doc
    BY <2>2 DEF Lined
  <2>3. CASE u \in unread
    <3>1. u = url
      BY <2>1, <2>3
    <3>2. texts[u] >= doc
      BY DEF TextedInv, Texted
    <3>3. doc \in Nat /\ texts[u] # Dead
      BY <1>a, <3>2, VersionFacts DEF Dead
    <3> QED
      BY <2>1, <3>1, <3>2, <3>3 DEF PutObject
  <2>4. CASE u \notin unread
    <3>1. u \in DOMAIN lines /\ lines[u] >= doc
      BY <2>2, <2>4 DEF TextedInv, Lined
    <3>2. u # url
      BY <2>4
    <3> QED
      BY <2>1, <3>1, <3>2 DEF PutObject
  <2> QED
    BY <2>3, <2>4
<1>7. CASE RemoveTarget
  <2>1. /\ at = "texts" /\ unread = {} /\ at' = "rename"
        /\ UNCHANGED <<wanted, lines>>
    BY <1>7 DEF RemoveTarget
  <2> QED
    BY <2>1, <1>e DEF TextedInv
<1>8. CASE Rename \/ PointCurrent \/ Prune
  <2>1. /\ at \in {"rename", "point", "prune"} /\ at' # "texts"
        /\ UNCHANGED <<wanted, lines>>
    BY <1>8 DEF Rename, PointCurrent, Prune
  <2> QED
    BY <2>1, <1>e DEF TextedInv
<1> QED
  BY <1>2, <1>3, <1>4, <1>5, <1>6, <1>7, <1>8, BundleSteps DEF Export

-----------------------------------------------------------------------------
(***************************************************************************)
(* The generation of grace.                                                *)
(***************************************************************************)
Deleting == {"pointer", "marker", "purge"}

LEMMA CrashesCount ==
    ASSUME crashes \in Nat, [Next]_vars
    PROVE  crashes' \in Nat /\ (crashes' = 0 => crashes = 0 /\ ~Crash)
<1>1. CASE Crash
  BY <1>1 DEF Crash
<1>2. CASE \E update \in Update \cup {Junk} : Send(update)
  BY <1>2 DEF Send, history, Crash
<1>3. CASE LoseVolume
  BY <1>3 DEF LoseVolume, Crash
<1>4. CASE UNCHANGED vars
  BY <1>4 DEF vars, history, Crash
<1>5. CASE Open \/ RestoreFiles \/ RestoreManifest \/ Collect \/ CloseBatch
  BY <1>5 DEF Open, RestoreFiles, RestoreManifest, Collect, CloseBatch, history, Crash
<1>6. CASE PutText \/ AddDocuments \/ DeleteUrls \/ MaybeMerge \/ ListRemote
  BY <1>6 DEF PutText, AddDocuments, DeleteUrls, MaybeMerge, ListRemote, history, Crash
<1>7. CASE Upload \/ PutManifest \/ PutPointer \/ PutMarker \/ DeleteObsolete
  BY <1>7 DEF Upload, PutManifest, PutPointer, PutMarker, DeleteObsolete, history, Crash
<1>8. CASE EndPublish \/ DeleteText \/ AckNext
  BY <1>8 DEF EndPublish, DeleteText, AckNext, history, Crash
<1> QED
  BY <1>1, <1>2, <1>3, <1>4, <1>5, <1>6, <1>7, <1>8 DEF Next, Step

LEMMA DeathsCount ==
    ASSUME deaths \in Nat, [BundleNext]_<<vars, exportVars>>
    PROVE  deaths' \in Nat /\ (deaths' = 0 => deaths = 0)
BY DirectorySteps DEF Die

\* When the publisher forgets the manifest before.
LEMMA GraceSteps ==
    ASSUME [Next]_vars, ~Crash
    PROVE  /\ previous' = previous \/ EndPublish
           /\ pc' \in Deleting => pc \in Deleting \/ PutManifest
           /\ pc' \notin Deleting => pc \notin Deleting \/ EndPublish
           /\ PutManifest => pc' \in Deleting
<1> USE DEF Deleting
<1>1. CASE \E update \in Update \cup {Junk} : Send(update)
  BY <1>1 DEF Send, memory, PutManifest
<1>2. CASE UNCHANGED vars
  BY <1>2 DEF vars, memory, PutManifest
<1>3. CASE Open \/ RestoreFiles \/ RestoreManifest \/ Collect \/ CloseBatch
  BY <1>3 DEF Open, RestoreFiles, RestoreManifest, Collect, CloseBatch, memory, PutManifest
<1>4. CASE PutText \/ AddDocuments \/ DeleteUrls \/ MaybeMerge \/ ListRemote
  BY <1>4 DEF PutText, AddDocuments, DeleteUrls, MaybeMerge, ListRemote, memory, PutManifest
<1>5. CASE Upload \/ PutManifest \/ PutPointer \/ PutMarker \/ DeleteObsolete
  BY <1>5 DEF Upload, PutManifest, PutPointer, PutMarker, DeleteObsolete, memory
<1>6. CASE EndPublish \/ DeleteText \/ AckNext \/ LoseVolume
  BY <1>6 DEF EndPublish, DeleteText, AckNext, LoseVolume, memory, PutManifest
<1> QED
  BY <1>1, <1>2, <1>3, <1>4, <1>5, <1>6 DEF Next, Step

LEMMA PreviousNext ==
    ASSUME IndexerInv, PreviousInv, [Next]_vars, ~Crash
    PROVE  PreviousInv'
<1> SUFFICES ASSUME pc' \notin Deleting PROVE previous' = ToSet(manifest'.layers)
  BY DEF PreviousInv, Deleting
<1>1. manifest' = manifest
  BY StepsGo, GraceSteps
<1>2. CASE EndPublish
  <2>1. previous' = ToSet(local.layers)
    BY <1>2 DEF EndPublish, FilesOf
  <2>2. manifest.layers = local.layers
    BY <1>2 DEF EndPublish, IndexerInv, SnapshotInv, CommitInv
  <2> QED
    BY <2>1, <2>2, <1>1
<1>3. CASE ~EndPublish
  BY <1>1, <1>3, GraceSteps DEF PreviousInv, Deleting
<1> QED
  BY <1>2, <1>3

LEMMA GraceNext ==
    ASSUME IndexerInv, ReaderInv, PreviousInv, GraceInv, crashes \in Nat, crashes' = 0,
           [BundleNext]_<<vars, exportVars>>
    PROVE  GraceInv'
<1> DEFINE awaited == ToSet(unlisted) \cup queue
<1>a. [Next]_vars /\ ~Crash
  BY BundleSteps, CrashesCount
<1>1. CASE UNCHANGED <<vars, exportVars>>
  BY <1>1 DEF GraceInv, vars, storage, memory, exportVars, reader
<1>2. CASE WriterStep /\ UNCHANGED exporter
  <2> SUFFICES ASSUME at = "list"
               PROVE  /\ commits' \in Nat
                      /\ commits' = 0 => held = manifest'
                      /\ commits' = 1 /\ pc' \in Deleting => ToSet(held.layers) \subseteq previous'
                      /\ commits' <= 1 => awaited \subseteq DOMAIN remote'
    BY <1>2, WriterLeaves DEF GraceInv, Deleting
  <2>a. /\ commits \in Nat
        /\ commits = 0 => held = manifest
        /\ commits = 1 /\ pc \in Deleting => ToSet(held.layers) \subseteq previous
        /\ commits <= 1 => awaited \subseteq DOMAIN remote
        /\ awaited \subseteq ToSet(held.layers)
    BY DEF GraceInv, Deleting, ReaderInv
  <2> HIDE DEF awaited
  <2>1. CASE PutManifest
    <3>1. commits' = commits + 1
      BY <1>2, <2>1 DEF WriterStep
    <3>2. remote' = remote /\ previous' = previous
      BY <2>1 DEF PutManifest, memory
    <3>3. commits' = 1 => held = manifest /\ previous = ToSet(manifest.layers)
      BY <2>1, <2>a, <3>1 DEF PreviousInv, PutManifest
    <3>4. commits' # 0 /\ (commits' <= 1 => commits <= 1) /\ commits' \in Nat
      BY <3>1, <2>a
    <3> QED
      BY <2>a, <3>2, <3>3, <3>4
  <2>2. CASE ~PutManifest
    <3>1. commits' = commits /\ manifest' = manifest
      BY <1>2, <2>2, <1>a, StepsGo DEF WriterStep
    <3>2. commits = 1 /\ pc' \in Deleting => ToSet(held.layers) \subseteq previous'
      BY <2>2, <2>a, <1>a, GraceSteps DEF EndPublish, Deleting
    <3>3. ASSUME commits <= 1 PROVE awaited \subseteq DOMAIN remote'
      <4>1. CASE remote' = remote
        BY <4>1, <3>3, <2>a
      <4>2. CASE Upload
        <5>1. PICK n \in Missing : remote' = PutObject(remote, n, local.files[n])
          BY <4>2 DEF Upload
        <5> QED
          BY <5>1, <3>3, <2>a DEF PutObject
      <4>3. CASE DeleteObsolete
        <5>1. PICK n \in Obsolete : remote' = DeleteObject(remote, n)
          BY <4>3 DEF DeleteObsolete
        <5>2. n \notin ToSet(local.layers) /\ n \notin previous /\ pc \in Deleting
          BY <4>3 DEF DeleteObsolete, Obsolete, FilesOf, Deleting
        <5>3. manifest.layers = local.layers
          BY <4>3 DEF DeleteObsolete, IndexerInv, SnapshotInv, CommitInv
        <5>4. commits = 0 \/ commits = 1
          BY <3>3, <2>a
        <5>5. n \notin ToSet(held.layers)
          BY <5>2, <5>3, <5>4, <2>a
        <5> QED
          BY <5>1, <5>5, <3>3, <2>a DEF DeleteObject
      <4> QED
        BY <4>1, <4>2, <4>3, <1>a, RemoteSteps
    <3> QED
      BY <3>1, <3>2, <3>3, <2>a
  <2> QED
    BY <2>1, <2>2
<1>3. CASE Download /\ UNCHANGED vars
  <2>0. UNCHANGED <<remote, manifest, previous, pc>>
    BY <1>3 DEF vars, storage, memory
  <2>1. CASE ReadManifest
    <3>1. /\ at = "manifest" /\ held' = manifest /\ unlisted' = manifest.layers
          /\ commits' = 0 /\ queue' = queue
      BY <2>1 DEF ReadManifest
    <3>2. queue = {} /\ ToSet(manifest.layers) \subseteq DOMAIN remote
      BY <3>1 DEF ReaderInv, IndexerInv, SnapshotInv, PublishedIsComplete
    <3>3. commits' \in Nat /\ commits' # 1
      BY <3>1
    <3> QED
      BY <2>0, <3>1, <3>2, <3>3 DEF GraceInv
  <2>2. CASE ListSegment
    <3>1. /\ at = "list" /\ unlisted # <<>>
          /\ unlisted' = Tail(unlisted) /\ queue' \subseteq queue \cup {Head(unlisted)}
          /\ UNCHANGED <<held, commits>>
      BY <2>2 DEF ListSegment
    <3>2. ToSet(Tail(unlisted)) \cup {Head(unlisted)} \subseteq ToSet(unlisted)
      BY <3>1, TailFacts DEF ReaderInv
    <3>3. ToSet(unlisted') \cup queue' \subseteq awaited
      BY <3>1, <3>2
    <3> QED
      BY <2>0, <3>1, <3>3 DEF GraceInv
  <2>3. CASE GetFile
    <3>1. /\ at = "list" /\ queue' \subseteq queue /\ UNCHANGED <<held, unlisted, commits>>
      BY <2>3 DEF GetFile
    <3>2. ToSet(unlisted') \cup queue' \subseteq awaited
      BY <3>1
    <3> QED
      BY <2>0, <3>1, <3>2 DEF GraceInv
  <2>4. CASE ReadManifestChanged \/ GetFileMissing \/ Complete
    BY <2>4 DEF ReadManifestChanged, GetFileMissing, Complete, GraceInv
  <2> QED
    BY <1>3, <2>1, <2>2, <2>3, <2>4 DEF Download
<1>4. CASE StartExport \/ OpenIndex \/ RemoveTarget \/ Rename \/ PointCurrent \/ Die
  BY <1>4 DEF StartExport, ReadPointer, OpenIndex, RemoveTarget, Rename, PointCurrent, Die,
              GraceInv
<1>5. CASE ReadText \/ Prune
  <2>1. at' # "list"
    BY <1>5 DEF ReadText, Prune, reader
  <2> QED
    BY <2>1 DEF GraceInv
<1> QED
  BY <1>1, <1>2, <1>3, <1>4, <1>5, BundleSteps DEF Export

-----------------------------------------------------------------------------
LEMMA BundleStarts == BundleInit => BundleInv
<1> SUFFICES ASSUME BundleInit PROVE BundleInv
  OBVIOUS
<1>1. IndexerInv /\ Init
  BY IndexerInit DEF BundleInit, ReaderInit
<1>2. /\ at = "idle" /\ wanted = NoVersion /\ unlisted = <<>> /\ queue = {}
      /\ got = NoObjects /\ bundles = <<>> /\ current = NoVersion /\ before = NoVersion
      /\ deaths = 0
  BY DEF BundleInit, ReaderInit
<1>3. pointer = NoVersion /\ manifest = NoManifest /\ previous = {} /\ crashes = 0
      /\ pc = "open" /\ local.next = 1
  BY <1>1 DEF Init, EmptyIndex
<1>4. /\ NoManifest.layers = <<>> /\ NoManifest.next = 0
      /\ NoVersion.manifest = NoManifest /\ NoVersion.files = NoObjects
      /\ <<>> \in Seq(FileName) /\ ToSet(<<>>) = {} /\ DOMAIN <<>> = {} /\ Len(<<>>) = 0
  BY DEF NoManifest, NoVersion, ToSet
<1>5. IsVersion(updates, NoVersion)
  BY <1>1, <1>3 DEF IndexerInv, FileInv
<1>6. ReaderInv
  BY <1>2, <1>4, <1>5, NoFiles DEF ReaderInv, Downloading, Exporting
<1>7. DirectoryInv
  <2>1. IsList(<<>>)
    <3>1. <<>> \in Seq({})
      OBVIOUS
    <3> QED
      BY <3>1, SeqIsList
  <2> QED
    BY <1>2, <1>4, <2>1 DEF DirectoryInv, Downloading
<1>8. GotInv
  BY <1>2, <1>4, NoFiles DEF GotInv, IsMade, Downloading, Exporting
<1>9. OrderInv
  <2>1. VersionOf(local).manifest.next = 1
    BY <1>3 DEF VersionOf, ManifestOf
  <2> QED
    BY <1>2, <1>3, <1>4, <2>1 DEF OrderInv, Older
<1>10. TextedInv
  <2>1. \A url : LiveIn(<<>>, NoObjects, url) = Dead
    BY <1>4 DEF LiveIn
  <2>2. Texted(updates, texts, NoVersion)
    BY <1>4, <2>1 DEF Texted
  <2> QED
    BY <1>2, <1>3, <1>4, <2>2 DEF TextedInv
<1>11. KeptBundles /\ PreviousInv /\ GraceInv
  BY <1>2, <1>3, <1>4 DEF KeptBundles, PreviousInv, GraceInv
<1> QED
  BY <1>1, <1>2, <1>3, <1>6, <1>7, <1>8, <1>9, <1>10, <1>11 DEF BundleInv

LEMMA BundleInductive == BundleInv /\ [BundleNext]_<<vars, exportVars>> => BundleInv'
<1> SUFFICES ASSUME BundleInv, [BundleNext]_<<vars, exportVars>> PROVE BundleInv'
  OBVIOUS
<1>1. /\ IndexerInv /\ ReaderInv /\ DirectoryInv /\ crashes \in Nat /\ deaths \in Nat
      /\ [Next]_vars
  BY BundleSteps DEF BundleInv
<1>2. IndexerInv' /\ ReaderInv' /\ DirectoryInv'
  BY <1>1, IndexerNext, ReaderNext, DirectoryNext
<1>3. /\ crashes' \in Nat /\ (crashes' = 0 => crashes = 0 /\ ~Crash)
      /\ deaths' \in Nat /\ (deaths' = 0 => deaths = 0)
      /\ (losses' = 0 => losses = 0)
  BY <1>1, CrashesCount, DeathsCount, LossesCount DEF IndexerInv
<1>4. ASSUME losses' = 0 PROVE GotInv' /\ OrderInv' /\ TextedInv'
  <2>1. GotInv /\ OrderInv /\ TextedInv
    BY <1>3, <1>4 DEF BundleInv
  <2> QED
    BY <1>1, <1>4, <2>1, GotNext, OrderNext, TextedNext
<1>5. ASSUME losses' = 0, deaths' = 0 PROVE KeptBundles'
  <2>1. OrderInv /\ KeptBundles
    BY <1>3, <1>5 DEF BundleInv
  <2> QED
    BY <1>1, <1>5, <2>1, KeptBundlesNext
<1>6. ASSUME crashes' = 0 PROVE PreviousInv' /\ GraceInv'
  <2>1. PreviousInv /\ GraceInv /\ ~Crash
    BY <1>3, <1>6 DEF BundleInv
  <2> QED
    BY <1>1, <1>6, <2>1, PreviousNext, GraceNext
<1> QED
  BY <1>2, <1>3, <1>4, <1>5, <1>6 DEF BundleInv

LEMMA BundleInvariant == BundleSpec => []BundleInv
BY BundleStarts, BundleInductive, PTL DEF BundleSpec

-----------------------------------------------------------------------------
\* A download whose manifest is replaced at most once finds every file it still
\* has to get, however it is interleaved with uploads and deletions, if the
\* indexer did not die.
THEOREM GraceIsKept == BundleSpec => []GraceHolds
<1>1. BundleInv => GraceHolds
  <2> SUFFICES ASSUME BundleInv, crashes = 0, at = "list", commits <= 1
               PROVE  ToSet(unlisted) \cup queue \subseteq DOMAIN remote
    BY DEF GraceHolds
  <2> QED
    BY DEF BundleInv, GraceInv
<1> QED
  BY <1>1, BundleInvariant, PTL

\* As long as the volume is never lost, an exported bundle is, file by file,
\* the snapshot it is named after: no mixture of two is ever opened.
THEOREM BundlesAreSnapshots == BundleSpec => []BundleIsSnapshot
<1>1. BundleInv => BundleIsSnapshot
  BY DEF BundleInv, GotInv, BundleIsSnapshot
<1> QED
  BY <1>1, BundleInvariant, PTL

\* `current` points to a whole bundle whatever the exporter was doing when it
\* died; and the bundle it pointed to before is there as well, if none died.
THEOREM OpenedBundlesAreKept == BundleSpec => []OpenedIsKept
<1>1. BundleInv => OpenedIsKept
  BY DEF BundleInv, DirectoryInv, KeptBundles, OpenedIsKept
<1> QED
  BY <1>1, BundleInvariant, PTL

\* The texts of a bundle are never older than its documents, although they are
\* read later and the indexer replaces and deletes them meanwhile.
THEOREM BundleTextsAreKept == BundleSpec => []TextsAreNotOlder
<1>1. BundleInv => TextsAreNotOlder
  <2> SUFFICES ASSUME BundleInv, losses = 0, NEW i \in DOMAIN bundles, NEW url \in Url,
                      NEW doc, doc = LiveIn(bundles[i].version.manifest.layers,
                                            bundles[i].files, url), doc # Dead
               PROVE  \/ url \in DOMAIN bundles[i].lines /\ bundles[i].lines[url] >= doc
                      \/ \E j \in (doc + 1) .. updates.cursor :
                             Message(j) = [url |-> url, doc |-> FALSE]
    BY DEF TextsAreNotOlder
  <2>1. bundles[i].files = bundles[i].version.files
    BY DEF BundleInv, GotInv
  <2>2. Lined(updates, bundles[i].version, bundles[i].lines, {})
    BY DEF BundleInv, TextedInv
  <2> QED
    BY <2>1, <2>2 DEF Lined, DeletedAfter, Message
<1> QED
  BY <1>1, BundleInvariant, PTL
=============================================================================
