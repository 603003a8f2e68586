----------------------- MODULE IndexPublicationProofs -----------------------
(***************************************************************************)
(* What the order of the uploads, the marker and the catalog are worth,    *)
(* for any files and any number of builds, rankings, shardings and         *)
(* interruptions.                                                          *)
(***************************************************************************)
EXTENDS IndexPublication, SequenceTheorems, FiniteSetTheorems, TLAPS

N == Len(File)

IndexSet  == ToSet(IndexKeys)
SourceSet == ToSet(SourceKeys)
ShardSet  == ToSet(ShardKeys)


\* Two sequences, one behind the other.
LEMMA ConcatAt ==
    ASSUME NEW S, NEW s \in Seq(S), NEW t \in Seq(S)
    PROVE  /\ s \o t \in Seq(S) /\ Len(s \o t) = Len(s) + Len(t)
           /\ \A i \in 1 .. Len(s) : (s \o t)[i] = s[i]
           /\ \A i \in 1 .. Len(t) : (s \o t)[Len(s) + i] = t[i]
<1>1. Len(s) \in Nat /\ Len(t) \in Nat
  BY LenProperties
<1>2. s \o t \in Seq(S) /\ Len(s \o t) = Len(s) + Len(t)
  BY ConcatProperties
<1>3. \A i \in 1 .. (Len(s) + Len(t)) :
         (s \o t)[i] = IF i <= Len(s) THEN s[i] ELSE t[i - Len(s)]
  BY ConcatProperties
<1>4. ASSUME NEW i \in 1 .. Len(s) PROVE (s \o t)[i] = s[i]
  BY <1>1, <1>3
<1>5. ASSUME NEW i \in 1 .. Len(t) PROVE (s \o t)[Len(s) + i] = t[i]
  <2>1. /\ Len(s) + i \in 1 .. (Len(s) + Len(t)) /\ ~(Len(s) + i <= Len(s))
        /\ (Len(s) + i) - Len(s) = i
    BY <1>1
  <2> QED
    BY <1>3, <2>1
<1> QED
  BY <1>2, <1>4, <1>5

LEMMA FileType ==
    /\ N \in Nat /\ N > 0 /\ DOMAIN File = 1 .. N
    /\ \A i \in 1 .. N :
          File[i] \notin {"corpus", "catalog", "marker", "cluster_manifest"}
<1>1. File \in Seq(STRING) /\ File # <<>>
  <2>1. ToSet(<<>>) = {}
    BY DEF ToSet
  <2> QED
    BY <2>1, PublicationAssumption
<1>2. N \in Nat /\ N > 0 /\ DOMAIN File = 1 .. N
  BY <1>1, EmptySeq, LenProperties DEF N
<1>3. \A i \in 1 .. N : File[i] \in ToSet(File)
  BY <1>2 DEF ToSet
<1> QED
  BY <1>2, <1>3, PublicationAssumption

\* The keys of the files, in their order.
LEMMA KeysAre ==
    /\ IndexKeys \in Seq(IndexSet) /\ Len(IndexKeys) = N
    /\ SourceKeys \in Seq(SourceSet) /\ Len(SourceKeys) = N
    /\ ShardKeys \in Seq(ShardSet) /\ Len(ShardKeys) = N
    /\ IndexSet = {<<"search-index", File[i]>> : i \in 1 .. N}
    /\ SourceSet = {<<"search-index-compressed", File[i]>> : i \in 1 .. N}
    /\ ShardSet = {<<"shard-index", File[i]>> : i \in 1 .. N}
BY FileType DEF IndexKeys, SourceKeys, ShardKeys, IndexSet, SourceSet, ShardSet, ToSet

\* The objects of an index, of the index that is sharded, and of the shards.
IndexObjects  == IndexSet \cup {Corpus, Catalog, IndexMarker}
SourceObjects == SourceSet \cup {SourceMarker}
ShardObjects  == ShardSet \cup {Manifest, ShardMarker}

\* Their names do not collide.
LEMMA KeysDiffer ==
    /\ IndexObjects \cap SourceObjects = {}
    /\ ShardObjects \cap (IndexObjects \cup SourceObjects) = {}
    /\ Scores \notin IndexObjects \cup SourceObjects \cup ShardObjects
    /\ IndexSet \cap {Corpus, Catalog, IndexMarker} = {}
    /\ SourceMarker \notin SourceSet
    /\ ShardMarker \notin ShardSet \cup {Manifest}
    /\ Corpus # Catalog /\ IndexMarker # Catalog /\ Corpus # IndexMarker
BY FileType, KeysAre
   DEF IndexObjects, SourceObjects, ShardObjects, Corpus, Catalog, IndexMarker,
       SourceMarker, Manifest, ShardMarker, Scores

\* What is put where in the order of a build.
LEMMA BuildPlanAt ==
    /\ DOMAIN BuildPlan = 1 .. (N + N + 4) /\ Len(BuildPlan) = N + N + 4
    /\ \A i \in 1 .. N : BuildPlan[i] = IndexKeys[i]
    /\ BuildPlan[N + 1] = Corpus /\ BuildPlan[N + 2] = Catalog
    /\ BuildPlan[N + 3] = IndexMarker
    /\ \A i \in 1 .. N : BuildPlan[N + 3 + i] = SourceKeys[i]
    /\ BuildPlan[N + N + 4] = SourceMarker
<1> DEFINE S == IndexObjects \cup SourceObjects
           P == IndexKeys
           Q == <<Corpus, Catalog, IndexMarker>>
           R == SourceKeys
           T == <<SourceMarker>>
<1>0. P \in Seq(S) /\ Q \in Seq(S) /\ R \in Seq(S) /\ T \in Seq(S)
  BY KeysAre DEF IndexObjects, SourceObjects
<1>1. /\ Len(P) = N /\ Len(Q) = 3 /\ Len(R) = N /\ Len(T) = 1
      /\ Q[1] = Corpus /\ Q[2] = Catalog /\ Q[3] = IndexMarker /\ T[1] = SourceMarker
  BY KeysAre
<1>2. BuildPlan = ((P \o Q) \o R) \o T
  BY DEF BuildPlan
<1> HIDE DEF S, P, Q, R, T
<1>3. N \in Nat /\ N > 0
  BY FileType
<1>4. /\ P \o Q \in Seq(S) /\ Len(P \o Q) = N + 3
      /\ \A i \in 1 .. N : (P \o Q)[i] = P[i]
      /\ \A i \in 1 .. 3 : (P \o Q)[N + i] = Q[i]
  <2>1. /\ P \o Q \in Seq(S) /\ Len(P \o Q) = Len(P) + Len(Q)
        /\ \A i \in 1 .. Len(P) : (P \o Q)[i] = P[i]
        /\ \A i \in 1 .. Len(Q) : (P \o Q)[Len(P) + i] = Q[i]
    BY <1>0, ConcatAt
  <2> QED
    BY <1>1, <2>1
<1>5. /\ (P \o Q) \o R \in Seq(S) /\ Len((P \o Q) \o R) = N + 3 + N
      /\ \A i \in 1 .. (N + 3) : ((P \o Q) \o R)[i] = (P \o Q)[i]
      /\ \A i \in 1 .. N : ((P \o Q) \o R)[N + 3 + i] = R[i]
  <2> DEFINE U == P \o Q
  <2> HIDE DEF U
  <2>0. U \in Seq(S)
    BY <1>4 DEF U
  <2>1. Len(U) = N + 3
    BY <1>4 DEF U
  <2>2. /\ U \o R \in Seq(S) /\ Len(U \o R) = Len(U) + Len(R)
        /\ \A i \in 1 .. Len(U) : (U \o R)[i] = U[i]
        /\ \A i \in 1 .. Len(R) : (U \o R)[Len(U) + i] = R[i]
    BY <1>0, <2>0, ConcatAt
  <2>3. /\ U \o R \in Seq(S) /\ Len(U \o R) = N + 3 + N
        /\ \A i \in 1 .. (N + 3) : (U \o R)[i] = U[i]
        /\ \A i \in 1 .. N : (U \o R)[N + 3 + i] = R[i]
    BY <1>1, <2>1, <2>2
  <2> QED
    BY <2>3 DEF U
<1>6. /\ BuildPlan \in Seq(S) /\ Len(BuildPlan) = N + 3 + N + 1
      /\ \A i \in 1 .. (N + 3 + N) : BuildPlan[i] = ((P \o Q) \o R)[i]
      /\ BuildPlan[N + 3 + N + 1] = T[1]
  <2> DEFINE U == (P \o Q) \o R
  <2> HIDE DEF U
  <2>0. U \in Seq(S)
    BY <1>5 DEF U
  <2>1. Len(U) = N + 3 + N
    BY <1>5 DEF U
  <2>2. /\ U \o T \in Seq(S) /\ Len(U \o T) = Len(U) + Len(T)
        /\ \A i \in 1 .. Len(U) : (U \o T)[i] = U[i]
        /\ \A i \in 1 .. Len(T) : (U \o T)[Len(U) + i] = T[i]
    BY <1>0, <2>0, ConcatAt
  <2>3. /\ U \o T \in Seq(S) /\ Len(U \o T) = N + 3 + N + 1
        /\ \A i \in 1 .. (N + 3 + N) : (U \o T)[i] = U[i]
        /\ (U \o T)[N + 3 + N + 1] = T[1]
    BY <1>1, <1>3, <2>1, <2>2
  <2> QED
    BY <1>2, <2>3 DEF U
<1>7. DOMAIN BuildPlan = 1 .. (N + N + 4) /\ Len(BuildPlan) = N + N + 4
  <2>1. BuildPlan \in Seq(S)
    BY <1>6
  <2>2. DOMAIN BuildPlan = 1 .. Len(BuildPlan)
    BY <2>1, LenProperties
  <2>3. Len(BuildPlan) = N + N + 4
    BY <1>3, <1>6
  <2> QED
    BY <2>2, <2>3
<1>8. \A i \in 1 .. N : BuildPlan[i] = P[i]
  <2>1. \A i \in 1 .. N : i \in 1 .. (N + 3) /\ i \in 1 .. (N + 3 + N)
    BY <1>3
  <2> QED
    BY <1>4, <1>5, <1>6, <2>1
<1>9. \A i \in 1 .. 3 : BuildPlan[N + i] = Q[i]
  <2>1. \A i \in 1 .. 3 : N + i \in 1 .. (N + 3) /\ N + i \in 1 .. (N + 3 + N)
    BY <1>3
  <2> QED
    BY <1>4, <1>5, <1>6, <2>1
<1>10. \A i \in 1 .. N : BuildPlan[N + 3 + i] = R[i]
  <2>1. \A i \in 1 .. N : N + 3 + i \in 1 .. (N + 3 + N)
    BY <1>3
  <2> QED
    BY <1>5, <1>6, <2>1
<1>11. BuildPlan[N + N + 4] = T[1]
  BY <1>3, <1>6
<1> QED
  BY <1>1, <1>7, <1>8, <1>9, <1>10, <1>11 DEF P, R

LEMMA BuildPlanHas ==
    /\ ToSet(BuildPlan) = IndexObjects \cup SourceObjects
    /\ \A i \in 1 .. Len(BuildPlan) :
          /\ i <= N <=> BuildPlan[i] \in IndexSet
          /\ i = N + 2 <=> BuildPlan[i] = Catalog
          /\ i = N + 3 <=> BuildPlan[i] = IndexMarker
          /\ i = N + N + 4 <=> BuildPlan[i] = SourceMarker
<1>1. N \in Nat /\ N > 0
  BY FileType
<1>2. /\ \A i \in 1 .. N : BuildPlan[i] \in IndexSet
      /\ \A i \in (N + 4) .. (N + N + 3) : BuildPlan[i] \in SourceSet
  <2>1. /\ \A i \in 1 .. N : IndexKeys[i] \in IndexSet
        /\ \A i \in 1 .. N : SourceKeys[i] \in SourceSet
    BY KeysAre, ElementOfSeq
  <2>2. \A i \in (N + 4) .. (N + N + 3) : i - (N + 3) \in 1 .. N /\ N + 3 + (i - (N + 3)) = i
    BY <1>1
  <2> QED
    BY <2>1, <2>2, BuildPlanAt
<1>3. \A i \in 1 .. Len(BuildPlan) :
         \/ i \in 1 .. N \/ i = N + 1 \/ i = N + 2 \/ i = N + 3
         \/ i \in (N + 4) .. (N + N + 3) \/ i = N + N + 4
  BY <1>1, BuildPlanAt
<1>4. IndexSet \cup SourceSet \subseteq ToSet(BuildPlan)
  <2>1. /\ \A k \in IndexSet : \E i \in 1 .. N : k = IndexKeys[i]
        /\ \A k \in SourceSet : \E i \in 1 .. N : k = SourceKeys[i]
    BY KeysAre, LenProperties DEF IndexSet, SourceSet, ToSet
  <2>2. \A i \in 1 .. N : i \in DOMAIN BuildPlan /\ N + 3 + i \in DOMAIN BuildPlan
    BY <1>1, BuildPlanAt
  <2> QED
    BY <2>1, <2>2, BuildPlanAt DEF ToSet
<1>5. {Corpus, Catalog, IndexMarker, SourceMarker} \subseteq ToSet(BuildPlan)
  <2>1. {N + 1, N + 2, N + 3, N + N + 4} \subseteq DOMAIN BuildPlan
    BY <1>1, BuildPlanAt
  <2> QED
    BY <2>1, BuildPlanAt DEF ToSet
<1>6. ToSet(BuildPlan) \subseteq IndexObjects \cup SourceObjects
  BY <1>2, <1>3, BuildPlanAt DEF ToSet, IndexObjects, SourceObjects
<1>7. \A i \in 1 .. Len(BuildPlan) :
          /\ i <= N <=> BuildPlan[i] \in IndexSet
          /\ i = N + 2 <=> BuildPlan[i] = Catalog
          /\ i = N + 3 <=> BuildPlan[i] = IndexMarker
          /\ i = N + N + 4 <=> BuildPlan[i] = SourceMarker
  BY <1>1, <1>2, <1>3, BuildPlanAt, KeysDiffer DEF IndexObjects, SourceObjects
<1> QED
  BY <1>4, <1>5, <1>6, <1>7 DEF IndexObjects, SourceObjects

\* And of shard-index.
LEMMA ShardPlanIs ==
    /\ ShardPlan \in Seq(ShardObjects) /\ ShardPlan # <<>>
    /\ ToSet(ShardPlan) = ShardObjects
<1> DEFINE S == ShardObjects
           P == <<Manifest>>
           Q == ShardKeys
           T == <<ShardMarker>>
<1>0. P \in Seq(S) /\ Q \in Seq(S) /\ T \in Seq(S)
  BY KeysAre DEF ShardObjects
<1>1. /\ Len(P) = 1 /\ Len(Q) = N /\ Len(T) = 1
      /\ P[1] = Manifest /\ T[1] = ShardMarker
  BY KeysAre
<1>2. \A k \in ShardSet : \E i \in 1 .. N : k = Q[i]
  BY KeysAre, LenProperties DEF ShardSet, ToSet
<1>3. ShardPlan = (P \o Q) \o T
  BY DEF ShardPlan
<1> HIDE DEF S, P, Q, T
<1>4. N \in Nat /\ N > 0
  BY FileType
<1>5. /\ P \o Q \in Seq(S) /\ Len(P \o Q) = 1 + N
      /\ (P \o Q)[1] = P[1]
      /\ \A i \in 1 .. N : (P \o Q)[1 + i] = Q[i]
  <2>1. /\ P \o Q \in Seq(S) /\ Len(P \o Q) = Len(P) + Len(Q)
        /\ \A i \in 1 .. Len(P) : (P \o Q)[i] = P[i]
        /\ \A i \in 1 .. Len(Q) : (P \o Q)[Len(P) + i] = Q[i]
    BY <1>0, ConcatAt
  <2> QED
    BY <1>1, <1>4, <2>1
<1>6. /\ ShardPlan \in Seq(S) /\ Len(ShardPlan) = 1 + N + 1
      /\ \A i \in 1 .. (1 + N) : ShardPlan[i] = (P \o Q)[i]
      /\ ShardPlan[1 + N + 1] = T[1]
  <2> DEFINE U == P \o Q
  <2> HIDE DEF U
  <2>0. U \in Seq(S)
    BY <1>5 DEF U
  <2>1. Len(U) = 1 + N
    BY <1>5 DEF U
  <2>2. /\ U \o T \in Seq(S) /\ Len(U \o T) = Len(U) + Len(T)
        /\ \A i \in 1 .. Len(U) : (U \o T)[i] = U[i]
        /\ \A i \in 1 .. Len(T) : (U \o T)[Len(U) + i] = T[i]
    BY <1>0, <2>0, ConcatAt
  <2>3. /\ U \o T \in Seq(S) /\ Len(U \o T) = 1 + N + 1
        /\ \A i \in 1 .. (1 + N) : (U \o T)[i] = U[i]
        /\ (U \o T)[1 + N + 1] = T[1]
    BY <1>1, <1>4, <2>1, <2>2
  <2> QED
    BY <1>3, <2>3 DEF U
<1>7. DOMAIN ShardPlan = 1 .. (N + 2) /\ ShardPlan # <<>>
  BY <1>4, <1>6, LenProperties, EmptySeq
<1>8. /\ ShardPlan[1] = Manifest /\ ShardPlan[N + 2] = ShardMarker
      /\ \A i \in 1 .. N : ShardPlan[1 + i] = Q[i] /\ 1 + i \in 1 .. (N + 2)
  <2>1. /\ 1 \in 1 .. (1 + N) /\ 1 + N + 1 = N + 2
        /\ \A i \in 1 .. N : 1 + i \in 1 .. (1 + N) /\ 1 + i \in 1 .. (N + 2)
    BY <1>4
  <2> QED
    BY <1>1, <1>5, <1>6, <2>1
<1>9. ShardSet \cup {Manifest, ShardMarker} \subseteq ToSet(ShardPlan)
  BY <1>2, <1>4, <1>7, <1>8 DEF ToSet
<1>10. ToSet(ShardPlan) \subseteq S
  BY <1>6, ElementOfSeq, LenProperties DEF ToSet
<1> QED
  BY <1>6, <1>7, <1>9, <1>10 DEF S, ShardObjects

-----------------------------------------------------------------------------
(***************************************************************************)
(* Types.  What a process will get is in the bucket, from where nothing is *)
(* ever deleted.                                                           *)
(***************************************************************************)

Builds == SUBSET (1 .. builds)

ShardingOk ==
    /\ sharding \in [step: {"idle", "get", "put"}, version: Builds,
                     todo: Seq(SourceSet \cup ShardObjects), has: Builds]
    /\ sharding.step = "idle" => sharding = IdleSharding
    /\ sharding.step # "idle" => sharding.todo # <<>>
    /\ sharding.step = "get" => sharding.todo \in Seq(SourceSet \cap DOMAIN objects)
    /\ sharding.step = "put" => sharding.todo \in Seq(ShardObjects)

ConsoleOk ==
    /\ console \in [step: {"down", "index", "scores", "catalog", "cluster", "up"},
                    version: Builds, todo: Seq(IndexSet), has: Builds,
                    scores: Builds, torn: BOOLEAN]
    /\ console.step = "index" => console.todo # <<>>

ReplicaOk ==
    /\ replica \in [step: {"down", "get", "marker", "up"}, version: Builds,
                    todo: SUBSET (ShardSet \cap DOMAIN objects), has: Builds]
    /\ replica.step = "get" => replica.todo # {}

Typed ==
    /\ builds \in Nat
    /\ building \in 0 .. Len(BuildPlan) /\ (building # 0 => builds > 0)
    /\ ranking \in Builds
    /\ torn \in BOOLEAN /\ orderly \in BOOLEAN
    /\ \A k \in DOMAIN objects : objects[k] \in Builds
    /\ ShardingOk /\ ConsoleOk /\ ReplicaOk

-----------------------------------------------------------------------------
(***************************************************************************)
(* A build puts the files of the index, then the catalog, then the marker. *)
(* So the catalog is that of the last build that had put all its files,    *)
(* the files are of that build unless another has begun since, and no      *)
(* marker is newer than the catalog.                                       *)
(***************************************************************************)

Published(key) == key \in DOMAIN objects
NotLater(S, T) == \A m \in S, n \in T : m <= n

\* What the running build has put is its own.
PutInv ==
    /\ \A k \in ToSet(BuildPlan) \cap DOMAIN objects :
          \E n \in 1 .. builds : objects[k] = {n}
    /\ \A i \in 1 .. (building - 1) :
          Published(BuildPlan[i]) /\ objects[BuildPlan[i]] = {builds}
    /\ building \in 1 .. (N + 2) /\ Published(Catalog) => objects[Catalog] # {builds}

CatalogInv ==
    /\ Published(Catalog) =>
          \A k \in IndexSet :
              Published(k) /\ (~torn => objects[k] = objects[Catalog])
    /\ Published(IndexMarker) =>
          Published(Catalog) /\ NotLater(objects[IndexMarker], objects[Catalog])
    /\ Published(SourceMarker) => SourceSet \subseteq DOMAIN objects

\* The console's version is not newer than the catalog; if it is that of the
\* catalog, it has had only files of that version, unless they are being
\* replaced.
ConsoleInv ==
    /\ console.step \in {"index", "scores", "catalog"} =>
          /\ Published(Catalog) /\ NotLater(console.version, objects[Catalog])
          /\ \E n \in 1 .. builds : console.version = {n}
          /\ objects[Catalog] = console.version /\ ~torn =>
                console.has \in {{}, console.version}
    /\ console.step \in {"scores", "catalog"} => console.has # {}
    /\ console.step \in {"cluster", "up"} /\ ~console.torn =>
          console.has = console.version

WholeInv == Typed /\ PutInv /\ CatalogInv /\ ConsoleInv

\* A put, and what it leaves.
LEMMA Put ==
    ASSUME NEW key, NEW body, objects' = PutObject(objects, key, body)
    PROVE  /\ DOMAIN objects' = DOMAIN objects \cup {key} /\ objects'[key] = body
           /\ \A k \in DOMAIN objects : k # key => objects'[k] = objects[k]
BY DEF PutObject

\* What does not move keeps its type while builds begin and objects appear.
LEMMA StillTyped ==
    ASSUME Typed, builds' \in Nat, builds' >= builds,
           DOMAIN objects \subseteq DOMAIN objects'
    PROVE  /\ Builds \subseteq Builds'
           /\ ranking' = ranking => ranking' \in Builds'
           /\ sharding' = sharding => ShardingOk'
           /\ console' = console => ConsoleOk'
           /\ replica' = replica => ReplicaOk'
<1>1. Builds \subseteq Builds'
  BY DEF Typed, Builds
<1>2. ranking' = ranking => ranking' \in Builds'
  BY <1>1 DEF Typed
<1>3. ASSUME sharding' = sharding PROVE ShardingOk'
  BY <1>1, <1>3 DEF Typed, ShardingOk
<1>4. ASSUME console' = console PROVE ConsoleOk'
  BY <1>1, <1>4 DEF Typed, ConsoleOk
<1>5. ASSUME replica' = replica PROVE ReplicaOk'
  BY <1>1, <1>5 DEF Typed, ReplicaOk
<1> QED
  BY <1>1, <1>2, <1>3, <1>4, <1>5

\* Where no build puts, its objects are as they were.
LEMMA NoBuildPuts ==
    ASSUME Typed, PutInv, CatalogInv, ConsoleInv,
           \A k \in IndexObjects \cup SourceObjects :
              /\ k \in DOMAIN objects' <=> k \in DOMAIN objects
              /\ k \in DOMAIN objects => objects'[k] = objects[k],
           UNCHANGED <<builds, torn>>, building' \in {0, building}
    PROVE  /\ PutInv' /\ CatalogInv'
           /\ console' = console => ConsoleInv'
<1>1. /\ IndexMarker \in IndexObjects /\ Catalog \in IndexObjects
      /\ IndexSet \subseteq IndexObjects /\ SourceSet \subseteq SourceObjects
      /\ SourceMarker \in SourceObjects
      /\ ToSet(BuildPlan) = IndexObjects \cup SourceObjects
  BY BuildPlanHas DEF IndexObjects, SourceObjects
<1>2. \A i \in 1 .. (building - 1) : BuildPlan[i] \in IndexObjects \cup SourceObjects
  <2>1. \A i \in 1 .. (building - 1) : i \in DOMAIN BuildPlan
    BY FileType, BuildPlanAt DEF Typed
  <2> QED
    BY <1>1, <2>1 DEF ToSet
<1>3. PutInv'
  <2>1. \A k \in ToSet(BuildPlan) \cap DOMAIN objects' :
           \E n \in 1 .. builds' : objects'[k] = {n}
    BY <1>1 DEF PutInv
  <2>2. \A i \in 1 .. (building' - 1) :
           BuildPlan[i] \in DOMAIN objects' /\ objects'[BuildPlan[i]] = {builds'}
    <3>0. building \in Nat
      BY FileType, BuildPlanAt DEF Typed
    <3>1. \A i \in 1 .. (building' - 1) : i \in 1 .. (building - 1)
      <4>1. CASE building' = 0
        BY <4>1
      <4>2. CASE building' = building
        BY <4>2
      <4> QED
        BY <4>1, <4>2
    <3>2. TAKE i \in 1 .. (building' - 1)
    <3>3. BuildPlan[i] \in DOMAIN objects /\ objects[BuildPlan[i]] = {builds}
      BY <3>1 DEF PutInv, Published
    <3>4. BuildPlan[i] \in IndexObjects \cup SourceObjects
      BY <1>2, <3>1
    <3> QED
      BY <3>3, <3>4
  <2>3. building' \in 1 .. (N + 2) /\ Catalog \in DOMAIN objects'
           => objects'[Catalog] # {builds'}
    BY <1>1, FileType DEF PutInv, Published
  <2> QED
    BY <2>1, <2>2, <2>3 DEF PutInv, Published
<1>4. CatalogInv'
  BY <1>1 DEF CatalogInv, Published, NotLater
<1>5. ASSUME console' = console PROVE ConsoleInv'
  BY <1>1, <1>5 DEF ConsoleInv, Published, NotLater
<1> QED
  BY <1>3, <1>4, <1>5


\* The steps of build-index.
LEMMA BuildStarts == WholeInv /\ StartBuild => WholeInv'
<1> SUFFICES ASSUME WholeInv, StartBuild PROVE WholeInv'
  OBVIOUS
<1> USE DEF WholeInv
<1>1. /\ builds \in Nat /\ builds' = builds + 1 /\ building' = 1
      /\ orderly' \in BOOLEAN
      /\ UNCHANGED <<objects, sharding, ranking, console, replica, torn>>
  BY DEF StartBuild, readers, JobBegins, Typed, Loading, NobodyLoads, JobsAreIdle
<1>2. Typed'
  <2>1. /\ Builds \subseteq Builds' /\ ranking' \in Builds'
        /\ ShardingOk' /\ ConsoleOk' /\ ReplicaOk'
    BY <1>1, StillTyped
  <2> QED
    BY <1>1, <2>1, FileType, BuildPlanAt DEF Typed
<1>3. Catalog \in ToSet(BuildPlan)
  BY BuildPlanHas DEF IndexObjects
<1>4. PutInv'
  BY <1>1, <1>3 DEF PutInv, Published
<1>5. CatalogInv'
  BY <1>1 DEF CatalogInv, Published, NotLater
<1>6. ConsoleInv'
  BY <1>1 DEF ConsoleInv, Published, NotLater
<1> QED
  BY <1>2, <1>4, <1>5, <1>6

LEMMA BuildPuts == WholeInv /\ PutBuild => WholeInv'
<1> SUFFICES ASSUME WholeInv, PutBuild PROVE WholeInv'
  OBVIOUS
<1> USE DEF WholeInv
<1> DEFINE key == BuildPlan[building]
<1>1. /\ builds \in Nat /\ builds > 0 /\ N \in Nat /\ N > 0
      /\ building \in 1 .. (N + N + 4) /\ building \in DOMAIN BuildPlan
      /\ building' = IF building = N + N + 4 THEN 0 ELSE building + 1
      /\ UNCHANGED <<builds, sharding, ranking, console, replica, orderly>>
  BY BuildPlanAt, FileType DEF PutBuild, counts, readers, Typed
<1>2. /\ DOMAIN objects' = DOMAIN objects \cup {key} /\ objects'[key] = {builds}
      /\ \A k \in DOMAIN objects : k # key => objects'[k] = objects[k]
  BY Put DEF PutBuild
<1>3. /\ key \in ToSet(BuildPlan) /\ ToSet(BuildPlan) = IndexObjects \cup SourceObjects
      /\ building <= N <=> key \in IndexSet
      /\ building = N + 2 <=> key = Catalog
      /\ building = N + 3 <=> key = IndexMarker
      /\ building = N + N + 4 <=> key = SourceMarker
  BY <1>1, BuildPlanHas, BuildPlanAt DEF ToSet
<1>4. /\ IndexSet \subseteq ToSet(BuildPlan) /\ Catalog \in ToSet(BuildPlan)
      /\ IndexMarker \in ToSet(BuildPlan) /\ IndexMarker # Catalog
      /\ Catalog \notin IndexSet /\ IndexMarker \notin IndexSet
      /\ SourceMarker \notin SourceSet
      /\ ToSet(IndexKeys) = IndexSet
  BY <1>3, KeysDiffer DEF IndexObjects, IndexSet
<1>5. torn' = CASE key = Catalog -> FALSE
                [] key \in IndexSet -> TRUE
                [] OTHER -> torn
  BY <1>4 DEF PutBuild
<1>6. torn' = IF key = Catalog THEN FALSE ELSE (IF key \in IndexSet THEN TRUE ELSE torn)
  BY <1>4, <1>5
<1> HIDE DEF key
<1>7. Typed'
  <2>1. /\ Builds' = Builds /\ ranking' \in Builds'
        /\ ShardingOk' /\ ConsoleOk' /\ ReplicaOk'
    BY <1>1, <1>2, StillTyped DEF Builds
  <2>2. building' \in 0 .. Len(BuildPlan)
    BY <1>1, BuildPlanAt
  <2>3. {builds} \in Builds
    BY <1>1 DEF Builds
  <2>4. torn' \in BOOLEAN
    BY <1>6 DEF Typed
  <2> QED
    BY <1>1, <1>2, <2>1, <2>2, <2>3, <2>4 DEF Typed
<1>8. \A i \in 1 .. (building - 1) :
         /\ BuildPlan[i] \in DOMAIN objects /\ objects[BuildPlan[i]] = {builds}
         /\ BuildPlan[i] \in DOMAIN objects' /\ objects'[BuildPlan[i]] = {builds}
  BY <1>2 DEF PutInv, Published
<1>9. PutInv'
  <2>1. \A k \in ToSet(BuildPlan) \cap DOMAIN objects' :
           \E n \in 1 .. builds' : objects'[k] = {n}
    BY <1>1, <1>2 DEF PutInv
  <2>2. ASSUME NEW i \in 1 .. (building' - 1)
        PROVE  BuildPlan[i] \in DOMAIN objects' /\ objects'[BuildPlan[i]] = {builds}
    <3>1. i \in 1 .. (building - 1) \/ i = building
      BY <1>1
    <3>2. CASE i = building
      BY <1>2, <3>2 DEF key
    <3> QED
      BY <1>8, <3>1, <3>2
  <2>3. building' \in 1 .. (N + 2) /\ Catalog \in DOMAIN objects'
           => objects'[Catalog] # {builds}
    BY <1>1, <1>2, <1>3 DEF PutInv, Published
  <2> QED
    BY <1>1, <2>1, <2>2, <2>3 DEF PutInv, Published
<1>10. CatalogInv'
  <2>1. CASE key = Catalog
    <3>1. \A k \in IndexSet : \E i \in 1 .. N : k = BuildPlan[i]
      BY KeysAre, LenProperties, BuildPlanAt DEF IndexSet, ToSet
    <3>2. building = N + 2
      BY <1>3, <2>1
    <3>3. \A k \in IndexSet : k \in DOMAIN objects' /\ objects'[k] = {builds}
      BY <1>1, <1>8, <3>1, <3>2
    <3>4. IndexMarker \in DOMAIN objects' =>
             \E n \in 1 .. builds : objects'[IndexMarker] = {n}
      BY <1>1, <1>2, <1>4 DEF PutInv
    <3>5. key # SourceMarker
      BY <1>1, <1>3, <3>2
    <3>6. SourceMarker \in DOMAIN objects' => SourceSet \subseteq DOMAIN objects'
      BY <1>2, <3>5 DEF CatalogInv, Published
    <3>7. IndexMarker \in DOMAIN objects' => NotLater(objects'[IndexMarker], objects'[Catalog])
      BY <1>1, <1>2, <2>1, <3>4 DEF NotLater
    <3> QED
      BY <1>2, <2>1, <3>3, <3>6, <3>7 DEF CatalogInv, Published, NotLater
  <2>2. CASE key # Catalog
    <3>1. ASSUME Catalog \in DOMAIN objects'
          PROVE  \A k \in IndexSet :
                    k \in DOMAIN objects' /\ (~torn' => objects'[k] = objects'[Catalog])
      BY <1>2, <1>6, <2>2, <3>1 DEF CatalogInv, Published
    <3>2. ASSUME key = IndexMarker
          PROVE  Catalog \in DOMAIN objects' /\ objects'[Catalog] = {builds}
      <4>1. N + 2 \in 1 .. (building - 1)
        BY <1>1, <1>3, <3>2
      <4> QED
        BY <1>8, <4>1, BuildPlanAt
    <3>3. IndexMarker \in DOMAIN objects' =>
             Catalog \in DOMAIN objects' /\ NotLater(objects'[IndexMarker], objects'[Catalog])
      BY <1>1, <1>2, <2>2, <3>2 DEF CatalogInv, Published, NotLater
    <3>4. SourceMarker \in DOMAIN objects' => SourceSet \subseteq DOMAIN objects'
      <4>1. CASE key = SourceMarker
        <5>1. \A k \in SourceSet : \E i \in 1 .. N : k = BuildPlan[N + 3 + i]
          <6>1. \A k \in SourceSet : \E i \in 1 .. N : k = SourceKeys[i]
            BY KeysAre, LenProperties DEF SourceSet, ToSet
          <6> QED
            BY <6>1, BuildPlanAt
        <5>2. \A i \in 1 .. N : N + 3 + i \in 1 .. (building - 1)
          BY <1>1, <1>3, <4>1
        <5> QED
          BY <1>8, <5>1, <5>2
      <4> QED
        BY <1>2, <4>1 DEF CatalogInv, Published
    <3> QED
      BY <3>1, <3>3, <3>4 DEF CatalogInv, Published, NotLater
  <2> QED
    BY <2>1, <2>2
<1>11. ConsoleInv'
  <2>1. CASE key = Catalog
    <3>1. ASSUME console.step \in {"index", "scores", "catalog"}
          PROVE  /\ \E n \in 1 .. builds : console.version = {n} /\ n < builds
                 /\ Catalog \in DOMAIN objects' /\ objects'[Catalog] = {builds}
      <4>1. building \in 1 .. (N + 2)
        BY <1>1, <1>3, <2>1
      <4>2. objects[Catalog] # {builds} /\ \E m \in 1 .. builds : objects[Catalog] = {m}
        BY <1>4, <3>1, <4>1 DEF ConsoleInv, PutInv, Published
      <4>3. \E n \in 1 .. builds : console.version = {n} /\ n < builds
        BY <1>1, <3>1, <4>2 DEF ConsoleInv, NotLater
      <4> QED
        BY <1>2, <2>1, <4>3
    <3> QED
      BY <1>1, <3>1 DEF ConsoleInv, Published, NotLater
  <2>2. CASE key # Catalog
    BY <1>1, <1>2, <1>6, <2>2 DEF ConsoleInv, Published, NotLater
  <2> QED
    BY <2>1, <2>2
<1> QED
  BY <1>7, <1>9, <1>10, <1>11


\* A step of another job leaves the objects of the builds, the builds and the
\* console.
LEMMA OtherJob ==
    ASSUME WholeInv, UNCHANGED <<builds, torn, console>>, building' \in {0, building},
           \A k \in IndexObjects \cup SourceObjects :
              /\ k \in DOMAIN objects' <=> k \in DOMAIN objects
              /\ k \in DOMAIN objects => objects'[k] = objects[k],
           Typed'
    PROVE  WholeInv'
BY NoBuildPuts DEF WholeInv

LEMMA Ranks == WholeInv /\ (StartRank \/ PutScores) => WholeInv'
<1>1. ASSUME WholeInv, StartRank PROVE WholeInv'
  <2>1. /\ ranking' \in Builds /\ orderly' \in BOOLEAN
        /\ UNCHANGED <<objects, building, sharding, console, replica, builds, torn>>
    BY <1>1 DEF StartRank, readers, JobBegins, WholeInv, Typed, Loading, NobodyLoads,
                JobsAreIdle
  <2>2. /\ builds' \in Nat /\ builds' >= builds /\ Typed
        /\ DOMAIN objects \subseteq DOMAIN objects'
    BY <1>1, <2>1 DEF WholeInv, Typed
  <2>3. ShardingOk' /\ ConsoleOk' /\ ReplicaOk' /\ Builds \subseteq Builds'
    BY <2>1, <2>2, StillTyped
  <2>4. Typed'
    BY <2>1, <2>2, <2>3 DEF Typed
  <2> QED
    BY <1>1, <2>1, <2>4, OtherJob
<1>2. ASSUME WholeInv, PutScores PROVE WholeInv'
  <2>1. /\ DOMAIN objects' = DOMAIN objects \cup {Scores} /\ objects'[Scores] = ranking
        /\ \A k \in DOMAIN objects : k # Scores => objects'[k] = objects[k]
    BY <1>2, Put DEF PutScores
  <2>2. /\ ranking' = {}
        /\ UNCHANGED <<building, sharding, console, replica, builds, torn, orderly>>
    BY <1>2 DEF PutScores, readers, counts
  <2>3. /\ builds' \in Nat /\ builds' >= builds /\ Typed
        /\ DOMAIN objects \subseteq DOMAIN objects'
    BY <1>2, <2>1, <2>2 DEF WholeInv, Typed
  <2>4. ShardingOk' /\ ConsoleOk' /\ ReplicaOk' /\ Builds \subseteq Builds'
    BY <2>2, <2>3, StillTyped
  <2>5. ranking' \in Builds'
    BY <2>2 DEF Builds
  <2>6. Typed'
    BY <2>1, <2>2, <2>3, <2>4, <2>5 DEF Typed
  <2>7. Scores \notin IndexObjects \cup SourceObjects
    BY KeysDiffer
  <2> QED
    BY <1>2, <2>1, <2>2, <2>6, <2>7, OtherJob
<1> QED
  BY <1>1, <1>2

\* The head and the tail of what is left to do.
LEMMA Todo ==
    ASSUME NEW S, NEW s \in Seq(S), s # <<>>
    PROVE  /\ Head(s) \in S /\ Tail(s) \in Seq(S)
           /\ Len(s) = 1 <=> Tail(s) = <<>>
<1>1. /\ Head(s) \in S /\ Tail(s) \in Seq(S) /\ Len(Tail(s)) = Len(s) - 1
      /\ Len(s) \in Nat
  BY HeadTailProperties, LenProperties
<1>2. Tail(s) = <<>> <=> Len(Tail(s)) = 0
  BY <1>1, EmptySeq
<1> QED
  BY <1>1, <1>2

LEMMA Shardings == WholeInv /\ (StartSharding \/ GetSource \/ PutShard) => WholeInv'
<1>1. ASSUME WholeInv, StartSharding PROVE WholeInv'
  <2>1. /\ sharding' = [step |-> "get", version |-> objects[SourceMarker],
                        todo |-> SourceKeys, has |-> {}]
        /\ orderly' \in BOOLEAN /\ SourceMarker \in DOMAIN objects
        /\ UNCHANGED <<objects, building, ranking, console, replica, builds, torn>>
    BY <1>1 DEF StartSharding, readers, JobBegins, WholeInv, Typed, Loading, NobodyLoads,
                JobsAreIdle
  <2>2. /\ builds' \in Nat /\ builds' >= builds /\ Typed
        /\ DOMAIN objects \subseteq DOMAIN objects'
    BY <1>1, <2>1 DEF WholeInv, Typed
  <2>3. ranking' \in Builds' /\ ConsoleOk' /\ ReplicaOk' /\ Builds \subseteq Builds'
    BY <2>1, <2>2, StillTyped
  <2>4. ShardingOk'
    <3>1. SourceSet \subseteq DOMAIN objects /\ objects[SourceMarker] \in Builds
      BY <1>1, <2>1 DEF WholeInv, CatalogInv, Typed, Published
    <3>2. SourceKeys \in Seq(SourceSet) /\ SourceKeys # <<>>
      BY KeysAre, FileType, EmptySeq
    <3>3. SourceKeys \in Seq(SourceSet \cap DOMAIN objects)
      <4>1. SourceSet \cap DOMAIN objects = SourceSet
        BY <3>1
      <4> QED
        BY <3>2, <4>1
    <3>4. SourceKeys \in Seq(SourceSet \cup ShardObjects)
      BY <3>2
    <3>5. {} \in Builds
      BY DEF Builds
    <3> QED
      BY <2>1, <2>3, <3>1, <3>2, <3>3, <3>4, <3>5 DEF ShardingOk
  <2>5. Typed'
    BY <2>1, <2>2, <2>3, <2>4 DEF Typed
  <2> QED
    BY <1>1, <2>1, <2>5, OtherJob
<1>2. ASSUME WholeInv, GetSource PROVE WholeInv'
  <2>1. UNCHANGED <<objects, building, ranking, console, replica, builds, torn, orderly>>
    BY <1>2 DEF GetSource, readers, counts
  <2>2. /\ builds' \in Nat /\ builds' >= builds /\ Typed
        /\ DOMAIN objects \subseteq DOMAIN objects'
    BY <1>2, <2>1 DEF WholeInv, Typed
  <2>3. ranking' \in Builds' /\ ConsoleOk' /\ ReplicaOk' /\ Builds' = Builds
    BY <2>1, <2>2, StillTyped DEF Builds
  <2>4. ShardingOk'
    <3>0. /\ sharding \in [step: {"idle", "get", "put"}, version: Builds,
                           todo: Seq(SourceSet \cup ShardObjects), has: Builds]
          /\ sharding.step = "get" /\ sharding.todo # <<>>
          /\ sharding.todo \in Seq(SourceSet \cap DOMAIN objects)
      BY <1>2, <2>2 DEF GetSource, ShardingOk, Typed
    <3>1. /\ Head(sharding.todo) \in SourceSet \cap DOMAIN objects
          /\ Tail(sharding.todo) \in Seq(SourceSet \cap DOMAIN objects)
          /\ Tail(sharding.todo) \in Seq(SourceSet \cup ShardObjects)
      BY <3>0, Todo
    <3>2. sharding.has \cup objects[Head(sharding.todo)] \in Builds
      BY <2>2, <3>0, <3>1 DEF Typed, Builds
    <3> DEFINE has == sharding.has \cup objects[Head(sharding.todo)]
               got == [sharding EXCEPT !.has = has, !.todo = Tail(@)]
    <3>3. CASE got.todo # <<>> /\ sharding' = got
      BY <2>1, <2>3, <3>0, <3>1, <3>2, <3>3 DEF ShardingOk
    <3>4. CASE sharding' = [got EXCEPT !.step = "put", !.todo = ShardPlan]
      <4>1. ShardPlan \in Seq(ShardObjects) /\ ShardPlan # <<>>
        BY ShardPlanIs
      <4>2. ShardPlan \in Seq(SourceSet \cup ShardObjects)
        BY <4>1
      <4> QED
        BY <2>3, <3>0, <3>2, <3>4, <4>1, <4>2 DEF ShardingOk
    <3>5. CASE sharding' = IdleSharding
      BY <2>3, <3>5 DEF ShardingOk, IdleSharding, Builds
    <3> QED
      BY <1>2, <3>3, <3>4, <3>5 DEF GetSource
  <2>5. Typed'
    BY <2>1, <2>2, <2>3, <2>4 DEF Typed
  <2> QED
    BY <1>2, <2>1, <2>5, OtherJob
<1>3. ASSUME WholeInv, PutShard PROVE WholeInv'
  <2> DEFINE key == Head(sharding.todo)
             body == IF key = ShardMarker THEN sharding.version ELSE sharding.has
  <2>0. /\ sharding \in [step: {"idle", "get", "put"}, version: Builds,
                         todo: Seq(SourceSet \cup ShardObjects), has: Builds]
        /\ sharding.step = "put" /\ sharding.todo # <<>>
        /\ sharding.todo \in Seq(ShardObjects)
    BY <1>3 DEF PutShard, ShardingOk, Typed, WholeInv
  <2>1. /\ DOMAIN objects' = DOMAIN objects \cup {key} /\ objects'[key] = body
        /\ \A k \in DOMAIN objects : k # key => objects'[k] = objects[k]
    BY <1>3, Put DEF PutShard
  <2>2. UNCHANGED <<building, ranking, console, replica, builds, torn, orderly>>
    BY <1>3 DEF PutShard, readers, counts
  <2>3. /\ builds' \in Nat /\ builds' >= builds /\ Typed
        /\ DOMAIN objects \subseteq DOMAIN objects'
    BY <1>3, <2>1, <2>2 DEF WholeInv, Typed
  <2>4. ranking' \in Builds' /\ ConsoleOk' /\ ReplicaOk' /\ Builds' = Builds
    BY <2>2, <2>3, StillTyped DEF Builds
  <2>5. key \in ShardObjects /\ Tail(sharding.todo) \in Seq(ShardObjects)
        /\ (Len(sharding.todo) = 1 <=> Tail(sharding.todo) = <<>>)
    BY <2>0, Todo
  <2>6. body \in Builds
    BY <2>0
  <2>7. ShardingOk'
    <3>1. CASE Len(sharding.todo) = 1
      BY <1>3, <2>4, <3>1 DEF PutShard, ShardingOk, IdleSharding, Builds
    <3>2. CASE Len(sharding.todo) # 1
      <4>1. sharding' = [sharding EXCEPT !.todo = Tail(@)]
        BY <1>3, <3>2 DEF PutShard
      <4>2. Tail(sharding.todo) \in Seq(SourceSet \cup ShardObjects)
        BY <2>5
      <4> QED
        BY <2>0, <2>4, <2>5, <3>2, <4>1, <4>2 DEF ShardingOk
    <3> QED
      BY <3>1, <3>2
  <2> HIDE DEF key, body
  <2>8. Typed'
    BY <2>1, <2>2, <2>3, <2>4, <2>6, <2>7 DEF Typed
  <2>9. key \notin IndexObjects \cup SourceObjects
    BY <2>5, KeysDiffer
  <2> QED
    BY <1>3, <2>1, <2>2, <2>8, <2>9, OtherJob
<1> QED
  BY <1>1, <1>2, <1>3

LEMMA Interrupted == WholeInv /\ Interrupt => WholeInv'
<1> SUFFICES ASSUME WholeInv, Interrupt PROVE WholeInv'
  OBVIOUS
<1>1. /\ building' \in {0, building} /\ ranking' \in {{}, ranking}
      /\ sharding' \in {IdleSharding, sharding} /\ orderly' \in BOOLEAN
      /\ UNCHANGED <<objects, console, replica, builds, torn>>
  BY DEF Interrupt, readers
<1>2. /\ builds' \in Nat /\ builds' >= builds /\ Typed /\ Builds' = Builds
      /\ DOMAIN objects \subseteq DOMAIN objects'
  BY <1>1 DEF WholeInv, Typed, Builds
<1>3. ConsoleOk' /\ ReplicaOk' /\ (sharding' = sharding => ShardingOk')
  BY <1>1, <1>2, StillTyped
<1>4. ShardingOk'
  <2>1. CASE sharding' = IdleSharding
    BY <2>1 DEF ShardingOk, IdleSharding, Builds
  <2> QED
    BY <1>1, <1>3, <2>1
<1>5. building' \in 0 .. Len(BuildPlan) /\ (building' # 0 => builds > 0)
  BY <1>1, <1>2, BuildPlanAt, FileType DEF Typed
<1>6. ranking' \in Builds
  BY <1>1, <1>2 DEF Typed, Builds
<1>7. Typed'
  BY <1>1, <1>2, <1>3, <1>4, <1>5, <1>6 DEF Typed
<1> QED
  BY <1>1, <1>7, OtherJob


\* A replica writes nothing, and gets only what the storage has.
LEMMA ReplicaSteps == WholeInv /\ (ReplicaStep \/ StopReplica) => WholeInv'
<1> SUFFICES ASSUME WholeInv, ReplicaStep \/ StopReplica PROVE WholeInv'
  OBVIOUS
<1>1. /\ UNCHANGED <<objects, building, sharding, ranking, console, builds, torn>>
      /\ orderly' \in BOOLEAN
  BY DEF ReplicaStep, StartReplica, GetShardFile, GetShardMarker, StopReplica, jobs,
         counts, DownloadBegins, JobsAreIdle, WholeInv, Typed
<1>2. /\ builds' \in Nat /\ builds' >= builds /\ Typed /\ Builds' = Builds
      /\ DOMAIN objects \subseteq DOMAIN objects'
  BY <1>1 DEF WholeInv, Typed, Builds
<1>3. ShardingOk' /\ ConsoleOk'
  BY <1>1, <1>2, StillTyped
<1>4. /\ ReplicaOk
      /\ replica \in [step: {"down", "get", "marker", "up"}, version: Builds,
                      todo: SUBSET (ShardSet \cap DOMAIN objects), has: Builds]
      /\ \A k \in DOMAIN objects : objects[k] \in Builds
      /\ {} \in Builds /\ \A S, T \in Builds : S \cup T \in Builds
  BY <1>2 DEF Typed, ReplicaOk, Builds
<1>5. ReplicaOk'
  <2>1. CASE StartReplica
    <3>1. /\ replica' = [step |-> "get", version |-> {}, has |-> {},
                         todo |-> ShardSet \cap DOMAIN objects]
          /\ ShardSet \cap DOMAIN objects # {}
      BY <2>1 DEF StartReplica, NoReplica, ShardSet
    <3> QED
      BY <1>1, <1>2, <1>4, <3>1 DEF ReplicaOk
  <2>2. CASE GetShardFile
    <3>1. PICK key \in replica.todo :
             replica' = [replica EXCEPT !.has = @ \cup objects[key],
                                        !.todo = @ \ {key},
                                        !.step = IF replica.todo = {key}
                                                 THEN "marker" ELSE "get"]
      BY <2>2 DEF GetShardFile
    <3>2. replica.has \cup objects[key] \in Builds
      BY <1>4
    <3> QED
      BY <1>1, <1>2, <1>4, <3>1, <3>2 DEF ReplicaOk
  <2>3. CASE GetShardMarker
    <3>1. PICK version \in Builds :
             replica' = [replica EXCEPT !.step = "up", !.version = version]
      BY <1>4, <2>3 DEF GetShardMarker
    <3> QED
      BY <1>1, <1>2, <1>4, <3>1 DEF ReplicaOk
  <2>4. CASE StopReplica
    BY <1>1, <1>2, <1>4, <2>4 DEF StopReplica, NoReplica, ReplicaOk
  <2> QED
    BY <2>1, <2>2, <2>3, <2>4 DEF ReplicaStep
<1>6. Typed'
  BY <1>1, <1>2, <1>3, <1>5 DEF Typed
<1> QED
  BY <1>1, <1>6, OtherJob

\* The console compares the catalog last: what it took with the version of the
\* catalog is whole, because no build has put a file since.
LEMMA ConsoleSteps == WholeInv /\ (ConsoleStep \/ StopConsole) => WholeInv'
<1> SUFFICES ASSUME WholeInv, ConsoleStep \/ StopConsole PROVE WholeInv'
  OBVIOUS
<1>1. /\ UNCHANGED <<objects, building, sharding, ranking, replica, builds, torn>>
      /\ orderly' \in BOOLEAN
  BY DEF ConsoleStep, StartConsole, GetIndexFile, GetScores, CheckCatalog, GetManifest,
         StopConsole, jobs, counts, DownloadBegins, JobsAreIdle, WholeInv, Typed
<1>2. /\ builds' \in Nat /\ builds' >= builds /\ Typed /\ Builds' = Builds
      /\ DOMAIN objects \subseteq DOMAIN objects'
  BY <1>1 DEF WholeInv, Typed, Builds
<1>3. ShardingOk' /\ ReplicaOk'
  BY <1>1, <1>2, StillTyped
<1>4. PutInv' /\ CatalogInv'
  BY <1>1, <1>2, NoBuildPuts DEF WholeInv
<1>5. /\ ConsoleOk
      /\ console \in [step: {"down", "index", "scores", "catalog", "cluster", "up"},
                      version: Builds, todo: Seq(IndexSet), has: Builds,
                      scores: Builds, torn: BOOLEAN]
      /\ \A k \in DOMAIN objects : objects[k] \in Builds
      /\ {} \in Builds /\ \A S, T \in Builds : S \cup T \in Builds
      /\ torn \in BOOLEAN
  BY <1>2 DEF Typed, ConsoleOk, Builds
<1>6. ConsoleOk' /\ ConsoleInv'
  <2>1. CASE console' = Down
    BY <1>2, <1>5, <2>1 DEF ConsoleOk, ConsoleInv, Down
  <2>2. CASE StartConsole
    <3>1. /\ console' = [step |-> "index", version |-> objects[IndexMarker],
                         todo |-> IndexKeys, has |-> {}, scores |-> {}, torn |-> FALSE]
          /\ IndexMarker \in DOMAIN objects
      BY <2>2 DEF StartConsole, Down
    <3>2. IndexKeys \in Seq(IndexSet) /\ IndexKeys # <<>>
      BY KeysAre, FileType, EmptySeq
    <3>3. ConsoleOk'
      BY <1>2, <1>5, <3>1, <3>2 DEF ConsoleOk
    <3>4. /\ Catalog \in DOMAIN objects
          /\ NotLater(objects[IndexMarker], objects[Catalog])
      BY <3>1 DEF WholeInv, CatalogInv, Published
    <3>5. \E n \in 1 .. builds : objects[IndexMarker] = {n}
      BY <3>1, BuildPlanHas DEF WholeInv, PutInv, IndexObjects
    <3>6. ConsoleInv'
      BY <1>1, <3>1, <3>4, <3>5 DEF ConsoleInv, Published, NotLater
    <3> QED
      BY <3>3, <3>6
  <2>3. CASE GetIndexFile
    <3> DEFINE key == Head(console.todo)
    <3>1. /\ console.step = "index" /\ console.todo # <<>>
          /\ key \in IndexSet /\ Tail(console.todo) \in Seq(IndexSet)
          /\ (Len(console.todo) = 1 <=> Tail(console.todo) = <<>>)
      BY <1>5, <2>3, Todo DEF GetIndexFile, ConsoleOk
    <3>2. /\ Published(Catalog) /\ NotLater(console.version, objects[Catalog])
          /\ \E n \in 1 .. builds : console.version = {n}
          /\ objects[Catalog] = console.version /\ ~torn =>
                console.has \in {{}, console.version}
      BY <3>1 DEF WholeInv, ConsoleInv
    <3>3. /\ key \in DOMAIN objects /\ (~torn => objects[key] = objects[Catalog])
          /\ \E n \in 1 .. builds : objects[key] = {n}
      BY <3>1, <3>2, BuildPlanHas DEF WholeInv, CatalogInv, PutInv, IndexObjects, Published
    <3>4. console' = [console EXCEPT !.has = @ \cup objects[key], !.todo = Tail(@),
                          !.step = IF Len(console.todo) = 1 THEN "scores" ELSE "index"]
      BY <2>3 DEF GetIndexFile
    <3> HIDE DEF key
    <3>5. console.has \cup objects[key] \in Builds
      BY <1>5, <3>3
    <3>6. ConsoleOk'
      BY <1>2, <1>5, <3>1, <3>4, <3>5 DEF ConsoleOk
    <3>7. objects[Catalog] = console.version /\ ~torn =>
              console.has \cup objects[key] = console.version
      BY <3>2, <3>3
    <3>8. console.has \cup objects[key] # {}
      BY <3>3
    <3>9. /\ console'.step \in {"index", "scores"} /\ console'.version = console.version
          /\ console'.has = console.has \cup objects[key]
      BY <1>5, <3>4
    <3>10. ConsoleInv'
      BY <1>1, <3>2, <3>7, <3>8, <3>9 DEF ConsoleInv, Published, NotLater
    <3> QED
      BY <3>6, <3>10
  <2>4. CASE GetScores /\ console' # Down
    <3>1. /\ console' = [console EXCEPT !.step = "catalog", !.scores = objects[Scores]]
          /\ Scores \in DOMAIN objects /\ console.step = "scores"
      BY <2>4 DEF GetScores
    <3>2. ConsoleOk'
      BY <1>2, <1>5, <3>1 DEF ConsoleOk
    <3>3. /\ console'.step = "catalog" /\ console'.version = console.version
          /\ console'.has = console.has
      BY <1>5, <3>1
    <3> QED
      BY <1>1, <3>1, <3>2, <3>3 DEF WholeInv, ConsoleInv, Published, NotLater
  <2>5. CASE CheckCatalog /\ console' # Down
    <3>1. /\ console' = [console EXCEPT !.step = "cluster", !.torn = torn]
          /\ objects[Catalog] = console.version /\ console.step = "catalog"
      BY <2>5 DEF CheckCatalog
    <3>2. ConsoleOk'
      BY <1>2, <1>5, <3>1 DEF ConsoleOk
    <3>3. /\ console'.step = "cluster" /\ console'.version = console.version
          /\ console'.has = console.has /\ console'.torn = torn
      BY <1>5, <3>1
    <3>4. ~torn => console.has = console.version
      BY <3>1 DEF WholeInv, ConsoleInv
    <3> QED
      BY <3>2, <3>3, <3>4 DEF ConsoleInv
  <2>6. CASE GetManifest /\ console' # Down
    <3>1. console' = [console EXCEPT !.step = "up"] /\ console.step = "cluster"
      BY <2>6 DEF GetManifest
    <3>2. ConsoleOk'
      BY <1>2, <1>5, <3>1 DEF ConsoleOk
    <3>3. /\ console'.step = "up" /\ console'.version = console.version
          /\ console'.has = console.has /\ console'.torn = console.torn
      BY <1>5, <3>1
    <3> QED
      BY <3>1, <3>2, <3>3 DEF WholeInv, ConsoleInv
  <2> QED
    BY <2>1, <2>2, <2>3, <2>4, <2>5, <2>6 DEF ConsoleStep, StopConsole
<1>7. Typed'
  BY <1>1, <1>2, <1>3, <1>6 DEF Typed
<1> QED
  BY <1>4, <1>6, <1>7 DEF WholeInv

LEMMA WholeInit == Init => WholeInv
<1> SUFFICES ASSUME Init PROVE WholeInv
  OBVIOUS
<1>1. /\ DOMAIN objects = {} /\ building = 0 /\ builds = 0 /\ torn = FALSE
      /\ console.step = "down" /\ console = Down /\ replica = NoReplica
      /\ sharding = IdleSharding /\ ranking = {} /\ orderly = TRUE
  BY DEF Init, NoObjects, Down
<1>2. Typed
  <2>1. {} \in Builds
    BY DEF Builds
  <2>2. ShardingOk /\ ConsoleOk /\ ReplicaOk
    BY <1>1, <2>1 DEF ShardingOk, ConsoleOk, ReplicaOk, IdleSharding, Down, NoReplica
  <2>3. 0 \in 0 .. Len(BuildPlan)
    BY BuildPlanAt, FileType
  <2> QED
    BY <1>1, <2>1, <2>2, <2>3 DEF Typed
<1>3. PutInv /\ CatalogInv /\ ConsoleInv
  BY <1>1, FileType DEF PutInv, CatalogInv, ConsoleInv, Published
<1> QED
  BY <1>2, <1>3 DEF WholeInv

LEMMA WholeStutter == WholeInv /\ UNCHANGED vars => WholeInv'
<1> SUFFICES ASSUME WholeInv, UNCHANGED vars PROVE WholeInv'
  OBVIOUS
<1>1. UNCHANGED <<objects, building, sharding, ranking, console, replica, builds, torn,
                  orderly>>
  BY DEF vars, jobs, readers, counts
<1>2. /\ builds' \in Nat /\ builds' >= builds /\ Typed /\ Builds' = Builds
      /\ DOMAIN objects \subseteq DOMAIN objects'
  BY <1>1 DEF WholeInv, Typed, Builds
<1>3. ShardingOk' /\ ReplicaOk' /\ ConsoleOk'
  BY <1>1, <1>2, StillTyped
<1>4. Typed'
  BY <1>1, <1>2, <1>3 DEF Typed
<1> QED
  BY <1>1, <1>4, OtherJob

LEMMA WholeStep == WholeInv /\ [Next]_vars => WholeInv'
BY BuildStarts, BuildPuts, Ranks, Shardings, Interrupted, ReplicaSteps, ConsoleSteps,
   WholeStutter DEF Next, JobStep

LEMMA PublicationInvariant == Spec => []WholeInv
BY WholeInit, WholeStep, PTL DEF Spec

\* Whatever jobs run while a console downloads, and wherever they are
\* interrupted, a console that comes up has the files of one index, the one of
\* the version it read in the marker, unless a build was replacing them when
\* it compared the catalog.
THEOREM AcceptedIndexIsWhole == Spec => []AcceptedIsWhole
<1>1. WholeInv => AcceptedIsWhole
  BY DEF WholeInv, ConsoleInv, AcceptedIsWhole
<1> QED
  BY <1>1, PublicationInvariant, PTL

-----------------------------------------------------------------------------
(***************************************************************************)
(* As long as jobs and downloads are orderly, what a job does not replace  *)
(* is of one build, and a reader sees nothing else.                        *)
(***************************************************************************)

Exclusion ==
    /\ building = 0 \/ sharding = IdleSharding
    /\ Loading(console) \/ Loading(replica) => building = 0 /\ sharding = IdleSharding

\* The objects of the index are those of the last build.
OneBuild ==
    building = 0 => \A k \in ToSet(BuildPlan) :
                        IF builds = 0 THEN ~Published(k)
                        ELSE Published(k) /\ objects[k] = {builds}

\* The shards are of the build their marker names.
OneSharding ==
    /\ sharding.step = "idle" =>
          \/ \A k \in ToSet(ShardPlan) : ~Published(k)
          \/ \A k \in ToSet(ShardPlan) :
                 Published(k) /\ objects[k] = objects[ShardMarker]
    /\ sharding.step # "idle" => builds > 0 /\ sharding.version = {builds}
    /\ sharding.step = "get" =>
          \/ sharding.has = sharding.version
          \/ sharding.has = {}
    /\ sharding.step = "put" =>
          /\ sharding.has = sharding.version
          /\ \A k \in ToSet(ShardPlan) \ ToSet(sharding.todo) :
                 Published(k) /\ objects[k] = sharding.version

ReadersAreWhole ==
    /\ console.step \in {"index", "scores", "catalog"} =>
          builds > 0 /\ console.version = {builds}
    /\ console.step = "index" => console.has \in {{}, console.version}
    /\ console.step \in {"scores", "catalog", "cluster", "up"} =>
          console.has = console.version
    /\ Loading(replica) => ToSet(ShardPlan) \subseteq DOMAIN objects
    /\ replica.step = "get" => replica.has \in {{}, objects[ShardMarker]}
    /\ replica.step = "marker" => replica.has = objects[ShardMarker]
    /\ replica.step = "up" => replica.has = replica.version

Ordered  == Exclusion /\ OneBuild /\ OneSharding /\ ReadersAreWhole
OrderInv == WholeInv /\ (orderly => Ordered)

\* What was idle stays in order while others move only what it does not see.
LEMMA StillOrdered ==
    ASSUME Typed, Ordered, UNCHANGED <<builds, building, sharding, console, replica>>,
           \A k \in IndexObjects \cup SourceObjects \cup ShardObjects :
              /\ k \in DOMAIN objects' <=> k \in DOMAIN objects
              /\ k \in DOMAIN objects => objects'[k] = objects[k]
    PROVE  Ordered'
<1>1. /\ ToSet(BuildPlan) = IndexObjects \cup SourceObjects
      /\ ToSet(ShardPlan) = ShardObjects /\ ShardMarker \in ShardObjects
  BY BuildPlanHas, ShardPlanIs DEF ShardObjects
<1>2. Exclusion'
  BY DEF Ordered, Exclusion, Loading
<1>3. OneBuild'
  BY <1>1 DEF Ordered, OneBuild, Published
<1>4. OneSharding'
  <2>1. sharding.step = "idle" =>
          \/ \A k \in ToSet(ShardPlan) : k \notin DOMAIN objects'
          \/ \A k \in ToSet(ShardPlan) :
                 k \in DOMAIN objects' /\ objects'[k] = objects'[ShardMarker]
    BY <1>1 DEF Ordered, OneSharding, Published
  <2>2. sharding.step = "put" =>
          \A k \in ToSet(ShardPlan) \ ToSet(sharding.todo) :
                 k \in DOMAIN objects' /\ objects'[k] = sharding.version
    BY <1>1 DEF Ordered, OneSharding, Published
  <2> QED
    BY <2>1, <2>2 DEF Ordered, OneSharding, Published
<1>5. ReadersAreWhole'
  <2>1. Loading(replica) =>
           /\ ToSet(ShardPlan) \subseteq DOMAIN objects'
           /\ objects'[ShardMarker] = objects[ShardMarker]
    BY <1>1 DEF Ordered, ReadersAreWhole
  <2>2. Loading(replica') => Loading(replica)
    OBVIOUS
  <2>3. Loading(replica) <=> replica.step \notin {"down", "up"}
    BY DEF Loading
  <2> QED
    BY <2>1, <2>2, <2>3 DEF Ordered, ReadersAreWhole, Loading
<1> QED
  BY <1>2, <1>3, <1>4, <1>5 DEF Ordered

\* build-index, beside which nothing runs.
LEMMA BuildOrdered ==
    ASSUME WholeInv, orderly => Ordered, StartBuild \/ PutBuild, orderly'
    PROVE  Ordered'
<1>1. CASE StartBuild
  <2>1. /\ orderly /\ sharding = IdleSharding /\ ~Loading(console) /\ ~Loading(replica)
        /\ building' = 1 /\ UNCHANGED <<objects, sharding, console, replica>>
    BY <1>1 DEF StartBuild, JobBegins, JobsAreIdle, NobodyLoads, readers
  <2>2. Ordered
    BY <2>1
  <2>3. Exclusion' /\ OneBuild'
    BY <2>1 DEF Exclusion, OneBuild, Loading
  <2>4. OneSharding'
    BY <2>1, <2>2 DEF Ordered, OneSharding, Published, IdleSharding
  <2>5. ReadersAreWhole'
    BY <2>1, <2>2 DEF Ordered, ReadersAreWhole, Loading
  <2> QED
    BY <2>3, <2>4, <2>5 DEF Ordered
<1>2. CASE PutBuild
  <2> DEFINE key == BuildPlan[building]
  <2>1. /\ orderly /\ building # 0 /\ building \in 1 .. Len(BuildPlan)
        /\ building' = IF building = Len(BuildPlan) THEN 0 ELSE building + 1
        /\ UNCHANGED <<builds, sharding, console, replica>>
    BY <1>2, BuildPlanAt, FileType DEF PutBuild, counts, readers, WholeInv, Typed
  <2>2. Ordered /\ sharding = IdleSharding /\ ~Loading(console) /\ ~Loading(replica)
    BY <2>1 DEF Ordered, Exclusion
  <2>3. /\ DOMAIN objects' = DOMAIN objects \cup {key} /\ objects'[key] = {builds}
        /\ \A k \in DOMAIN objects : k # key => objects'[k] = objects[k]
    BY <1>2, Put DEF PutBuild
  <2>4. key \in ToSet(BuildPlan) /\ builds \in Nat /\ builds > 0
    BY <2>1, BuildPlanAt, FileType DEF WholeInv, Typed, ToSet
  <2>5. key \notin ToSet(ShardPlan) /\ ShardMarker \in ToSet(ShardPlan)
    BY <2>4, KeysDiffer, BuildPlanHas, ShardPlanIs DEF ShardObjects
  <2>6. Exclusion'
    BY <2>1, <2>2 DEF Exclusion, Loading
  <2>7. OneBuild'
    <3> SUFFICES ASSUME building' = 0, NEW k \in ToSet(BuildPlan)
                 PROVE  k \in DOMAIN objects' /\ objects'[k] = {builds}
      BY <2>1, <2>4 DEF OneBuild, Published
    <3>1. building = Len(BuildPlan)
      BY <2>1
    <3>2. PICK i \in 1 .. Len(BuildPlan) : k = BuildPlan[i]
      BY BuildPlanAt DEF ToSet
    <3>3. CASE i = building
      BY <2>3, <3>2, <3>3
    <3>4. CASE i # building
      <4>1. i \in 1 .. (building - 1)
        BY <2>1, <3>1, <3>2, <3>4
      <4>2. k \in DOMAIN objects /\ objects[k] = {builds}
        BY <3>2, <4>1 DEF WholeInv, PutInv, Published
      <4> QED
        BY <2>3, <4>2
    <3> QED
      BY <3>3, <3>4
  <2> HIDE DEF key
  <2>8. OneSharding'
    BY <2>1, <2>2, <2>3, <2>5 DEF Ordered, OneSharding, Published, IdleSharding
  <2>9. ReadersAreWhole'
    BY <2>1, <2>2 DEF Ordered, ReadersAreWhole, Loading
  <2> QED
    BY <2>6, <2>7, <2>8, <2>9 DEF Ordered
<1> QED
  BY <1>1, <1>2

\* The elements of what is left to do.
LEMMA TodoSet ==
    ASSUME NEW S, NEW s \in Seq(S), s # <<>>
    PROVE  ToSet(s) = {Head(s)} \cup ToSet(Tail(s))
<1>1. /\ Len(s) \in Nat /\ Len(s) > 0 /\ Head(s) = s[1] /\ DOMAIN s = 1 .. Len(s)
      /\ DOMAIN Tail(s) = 1 .. (Len(s) - 1)
      /\ \A i \in 1 .. (Len(s) - 1) : Tail(s)[i] = s[i + 1]
  BY HeadTailProperties, LenProperties, EmptySeq
<1>2. ASSUME NEW i \in 1 .. Len(s) PROVE i = 1 \/ \E j \in DOMAIN Tail(s) : s[i] = Tail(s)[j]
  <2>1. i # 1 => i - 1 \in 1 .. (Len(s) - 1) /\ (i - 1) + 1 = i
    BY <1>1
  <2> QED
    BY <1>1, <2>1
<1>3. \A i \in 1 .. (Len(s) - 1) : i + 1 \in 1 .. Len(s)
  BY <1>1
<1> QED
  BY <1>1, <1>2, <1>3 DEF ToSet

\* shard-index, beside which nothing runs, splits the index of one build.
LEMMA ShardingOrdered ==
    ASSUME WholeInv, orderly => Ordered, StartSharding \/ GetSource \/ PutShard, orderly'
    PROVE  Ordered'
<1>1. CASE StartSharding
  <2>1. /\ orderly /\ building = 0 /\ sharding = IdleSharding
        /\ ~Loading(console) /\ ~Loading(replica) /\ SourceMarker \in DOMAIN objects
        /\ sharding' = [step |-> "get", version |-> objects[SourceMarker],
                        todo |-> SourceKeys, has |-> {}]
        /\ UNCHANGED <<objects, builds, building, console, replica>>
    BY <1>1 DEF StartSharding, JobBegins, JobsAreIdle, NobodyLoads, readers
  <2>2. Ordered
    BY <2>1
  <2>3. builds > 0 /\ objects[SourceMarker] = {builds}
    <3>1. SourceMarker \in ToSet(BuildPlan)
      BY BuildPlanHas DEF SourceObjects
    <3>2. builds # 0 /\ objects[SourceMarker] = {builds}
      BY <2>1, <2>2, <3>1 DEF Ordered, OneBuild, Published
    <3> QED
      BY <3>2 DEF WholeInv, Typed
  <2>4. Exclusion' /\ OneBuild'
    BY <2>1, <2>2 DEF Ordered, Exclusion, OneBuild, Published, Loading
  <2>5. OneSharding'
    BY <2>1, <2>3 DEF OneSharding
  <2>6. ReadersAreWhole'
    BY <2>1, <2>2 DEF Ordered, ReadersAreWhole, Loading
  <2> QED
    BY <2>4, <2>5, <2>6 DEF Ordered
<1>2. CASE GetSource
  <2> DEFINE has == sharding.has \cup objects[Head(sharding.todo)]
             got == [sharding EXCEPT !.has = has, !.todo = Tail(@)]
  <2>1. /\ orderly /\ sharding.step = "get" /\ sharding # IdleSharding
        /\ UNCHANGED <<objects, builds, building, console, replica>>
    BY <1>2 DEF GetSource, readers, counts, IdleSharding
  <2>2. Ordered /\ building = 0 /\ ~Loading(console) /\ ~Loading(replica)
    BY <2>1 DEF Ordered, Exclusion
  <2>3. /\ sharding \in [step: {"idle", "get", "put"}, version: Builds,
                         todo: Seq(SourceSet \cup ShardObjects), has: Builds]
        /\ sharding.todo # <<>> /\ sharding.todo \in Seq(SourceSet \cap DOMAIN objects)
    BY <2>1 DEF WholeInv, Typed, ShardingOk
  <2>4. has = {builds} /\ builds > 0 /\ sharding.version = {builds}
    <3>1. Head(sharding.todo) \in SourceSet \cap DOMAIN objects
      BY <2>3, Todo
    <3>2. Head(sharding.todo) \in ToSet(BuildPlan)
      BY <3>1, BuildPlanHas DEF SourceObjects
    <3>3. objects[Head(sharding.todo)] = {builds}
      BY <2>2, <3>1, <3>2 DEF Ordered, OneBuild, Published
    <3> QED
      BY <2>1, <2>2, <3>3 DEF Ordered, OneSharding
  <2>5. ~(Cardinality(has) > 1)
    BY <2>4, FS_Singleton
  <2> HIDE DEF has
  <2>6. \/ sharding' = got
        \/ sharding' = [got EXCEPT !.step = "put", !.todo = ShardPlan]
    BY <1>2, <2>5 DEF GetSource, has
  <2>7. /\ sharding'.step \in {"get", "put"} /\ sharding'.version = sharding.version
        /\ sharding'.has = {builds}
        /\ sharding'.step = "put" => sharding'.todo = ShardPlan
    BY <2>1, <2>3, <2>4, <2>6
  <2>8. Exclusion' /\ OneBuild'
    BY <2>1, <2>2 DEF Ordered, Exclusion, OneBuild, Published, Loading
  <2>9. OneSharding'
    <3>1. sharding'.step = "put" => ToSet(ShardPlan) \ ToSet(sharding'.todo) = {}
      BY <2>7
    <3> QED
      BY <2>1, <2>4, <2>7, <3>1 DEF OneSharding
  <2>10. ReadersAreWhole'
    BY <2>1, <2>2 DEF Ordered, ReadersAreWhole, Loading
  <2> QED
    BY <2>8, <2>9, <2>10 DEF Ordered
<1>3. CASE PutShard
  <2> DEFINE key == Head(sharding.todo)
             body == IF key = ShardMarker THEN sharding.version ELSE sharding.has
  <2>1. /\ orderly /\ sharding.step = "put" /\ sharding # IdleSharding
        /\ UNCHANGED <<builds, building, console, replica>>
    BY <1>3 DEF PutShard, readers, counts, IdleSharding
  <2>2. Ordered /\ building = 0 /\ ~Loading(console) /\ ~Loading(replica)
    BY <2>1 DEF Ordered, Exclusion
  <2>3. /\ sharding \in [step: {"idle", "get", "put"}, version: Builds,
                         todo: Seq(SourceSet \cup ShardObjects), has: Builds]
        /\ sharding.todo # <<>> /\ sharding.todo \in Seq(ShardObjects)
    BY <2>1 DEF WholeInv, Typed, ShardingOk
  <2>4. /\ sharding.has = sharding.version /\ builds > 0 /\ sharding.version = {builds}
        /\ \A k \in ToSet(ShardPlan) \ ToSet(sharding.todo) :
              k \in DOMAIN objects /\ objects[k] = {builds}
    BY <2>1, <2>2 DEF Ordered, OneSharding, Published
  <2>5. /\ DOMAIN objects' = DOMAIN objects \cup {key} /\ objects'[key] = body
        /\ \A k \in DOMAIN objects : k # key => objects'[k] = objects[k]
    BY <1>3, Put DEF PutShard
  <2>6. body = {builds}
    BY <2>4
  <2>7. /\ key \in ShardObjects /\ ToSet(sharding.todo) = {key} \cup ToSet(Tail(sharding.todo))
        /\ (Len(sharding.todo) = 1 <=> Tail(sharding.todo) = <<>>)
    BY <2>3, Todo, TodoSet
  <2> HIDE DEF key, body
  <2>8. \A k \in ToSet(ShardPlan) \ ToSet(Tail(sharding.todo)) :
           k \in DOMAIN objects' /\ objects'[k] = {builds}
    BY <2>4, <2>5, <2>6, <2>7
  <2>9. Exclusion'
    BY <2>1, <2>2 DEF Exclusion, Loading
  <2>10. OneBuild'
    <3>1. key \notin ToSet(BuildPlan)
      BY <2>7, KeysDiffer, BuildPlanHas
    <3> QED
      BY <2>1, <2>2, <2>5, <3>1 DEF Ordered, OneBuild, Published
  <2>11. OneSharding'
    <3>1. CASE Len(sharding.todo) = 1
      <4>1. sharding' = IdleSharding
        BY <1>3, <3>1 DEF PutShard
      <4>2. ToSet(Tail(sharding.todo)) = {}
        BY <2>7, <3>1 DEF ToSet
      <4>3. ShardMarker \in ToSet(ShardPlan)
        BY ShardPlanIs DEF ShardObjects
      <4> QED
        BY <2>8, <4>1, <4>2, <4>3 DEF OneSharding, Published, IdleSharding
    <3>2. CASE Len(sharding.todo) # 1
      <4>1. sharding' = [sharding EXCEPT !.todo = Tail(@)]
        BY <1>3, <3>2 DEF PutShard
      <4>2. /\ sharding'.step = "put" /\ sharding'.version = {builds}
            /\ sharding'.has = {builds} /\ sharding'.todo = Tail(sharding.todo)
        BY <2>1, <2>3, <2>4, <4>1
      <4> QED
        BY <2>1, <2>4, <2>8, <4>2 DEF OneSharding, Published
    <3> QED
      BY <3>1, <3>2
  <2>12. ReadersAreWhole'
    BY <2>1, <2>2 DEF Ordered, ReadersAreWhole, Loading
  <2> QED
    BY <2>9, <2>10, <2>11, <2>12 DEF Ordered
<1> QED
  BY <1>1, <1>2, <1>3

\* A download, beside which no job runs, gets what one job has put.
LEMMA ReplicaOrdered ==
    ASSUME WholeInv, orderly => Ordered, ReplicaStep \/ StopReplica, orderly'
    PROVE  Ordered'
<1>1. /\ orderly /\ Ordered
      /\ UNCHANGED <<objects, builds, building, sharding, console>>
  BY DEF ReplicaStep, StartReplica, GetShardFile, GetShardMarker, StopReplica, jobs,
         counts, DownloadBegins
<1>2. Loading(replica) => building = 0 /\ sharding = IdleSharding
  BY <1>1 DEF Ordered, Exclusion
<1>3. Loading(replica') => building = 0 /\ sharding = IdleSharding
  <2>1. CASE StartReplica
    BY <2>1 DEF StartReplica, DownloadBegins, JobsAreIdle
  <2>2. CASE GetShardFile \/ GetShardMarker
    BY <1>2, <2>2 DEF GetShardFile, GetShardMarker, Loading
  <2>3. CASE StopReplica
    BY <2>3 DEF StopReplica, NoReplica, Loading
  <2> QED
    BY <2>1, <2>2, <2>3 DEF ReplicaStep
<1>4. Exclusion'
  BY <1>1, <1>3 DEF Ordered, Exclusion, Loading
<1>5. OneBuild' /\ OneSharding'
  BY <1>1 DEF Ordered, OneBuild, OneSharding, Published
<1>6. /\ ToSet(ShardPlan) = ShardObjects /\ ShardSet \subseteq ShardObjects
      /\ ShardMarker \in ShardObjects
  BY ShardPlanIs DEF ShardObjects
<1>7. replica \in [step: {"down", "get", "marker", "up"}, version: Builds,
                   todo: SUBSET (ShardSet \cap DOMAIN objects), has: Builds]
  BY DEF WholeInv, Typed, ReplicaOk
<1>8. /\ Loading(replica') => ToSet(ShardPlan) \subseteq DOMAIN objects
      /\ replica'.step = "get" => replica'.has \in {{}, objects[ShardMarker]}
      /\ replica'.step = "marker" => replica'.has = objects[ShardMarker]
      /\ replica'.step = "up" => replica'.has = replica'.version
  <2>1. CASE StartReplica
    <3>0. sharding = IdleSharding
      BY <2>1 DEF StartReplica, DownloadBegins, JobsAreIdle
    <3>1. sharding.step = "idle"
      BY <3>0 DEF IdleSharding
    <3>2. ShardSet \cap DOMAIN objects # {} /\ replica'.step = "get" /\ replica'.has = {}
      BY <2>1 DEF StartReplica, NoReplica, ShardSet
    <3>3. ToSet(ShardPlan) \subseteq DOMAIN objects
      BY <1>1, <1>6, <3>1, <3>2 DEF Ordered, OneSharding, Published
    <3> QED
      BY <3>2, <3>3
  <2>2. CASE GetShardFile
    <3>1. PICK key \in replica.todo :
             replica' = [replica EXCEPT !.has = @ \cup objects[key],
                                        !.todo = @ \ {key},
                                        !.step = IF replica.todo = {key}
                                                 THEN "marker" ELSE "get"]
      BY <2>2 DEF GetShardFile
    <3>2. /\ replica.step = "get" /\ replica'.step \in {"get", "marker"}
          /\ replica'.has = replica.has \cup objects[key] /\ key \in ToSet(ShardPlan)
      BY <1>6, <1>7, <2>2, <3>1 DEF GetShardFile
    <3>3. ToSet(ShardPlan) \subseteq DOMAIN objects /\ sharding.step = "idle"
      BY <1>1, <1>2, <3>2 DEF Ordered, ReadersAreWhole, Loading, IdleSharding
    <3>4. objects[key] = objects[ShardMarker]
      BY <1>1, <1>6, <3>2, <3>3 DEF Ordered, OneSharding, Published
    <3>5. replica'.has = objects[ShardMarker]
      BY <1>1, <3>2, <3>4 DEF Ordered, ReadersAreWhole
    <3> QED
      BY <3>2, <3>3, <3>5
  <2>3. CASE GetShardMarker
    <3>1. replica.step = "marker" /\ ToSet(ShardPlan) \subseteq DOMAIN objects
      BY <1>1, <2>3 DEF GetShardMarker, Ordered, ReadersAreWhole, Loading
    <3>2. replica' = [replica EXCEPT !.step = "up", !.version = objects[ShardMarker]]
      BY <1>6, <2>3, <3>1 DEF GetShardMarker
    <3>3. /\ replica'.step = "up" /\ replica'.has = replica.has
          /\ replica'.version = objects[ShardMarker]
      BY <1>7, <3>2
    <3> QED
      BY <1>1, <3>1, <3>3 DEF Ordered, ReadersAreWhole
  <2>4. CASE StopReplica
    BY <2>4 DEF StopReplica, NoReplica, Loading
  <2> QED
    BY <2>1, <2>2, <2>3, <2>4 DEF ReplicaStep
<1>9. ReadersAreWhole'
  BY <1>1, <1>8 DEF Ordered, ReadersAreWhole, Loading
<1> QED
  BY <1>4, <1>5, <1>9 DEF Ordered

LEMMA ConsoleOrdered ==
    ASSUME WholeInv, orderly => Ordered, ConsoleStep \/ StopConsole, orderly'
    PROVE  Ordered'
<1>1. /\ orderly /\ Ordered
      /\ UNCHANGED <<objects, builds, building, sharding, replica>>
  BY DEF ConsoleStep, StartConsole, GetIndexFile, GetScores, CheckCatalog, GetManifest,
         StopConsole, jobs, counts, DownloadBegins
<1>2. Loading(console) => building = 0 /\ sharding = IdleSharding
  BY <1>1 DEF Ordered, Exclusion
<1>3. Loading(console') => building = 0 /\ sharding = IdleSharding
  <2>1. CASE StartConsole
    BY <2>1 DEF StartConsole, DownloadBegins, JobsAreIdle
  <2>2. CASE GetIndexFile \/ GetScores \/ CheckCatalog \/ GetManifest
    BY <1>2, <2>2 DEF GetIndexFile, GetScores, CheckCatalog, GetManifest, Loading
  <2>3. CASE StopConsole
    BY <2>3 DEF StopConsole, Down, Loading
  <2> QED
    BY <2>1, <2>2, <2>3 DEF ConsoleStep
<1>4. Exclusion'
  BY <1>1, <1>3 DEF Ordered, Exclusion, Loading
<1>5. OneBuild' /\ OneSharding'
  BY <1>1 DEF Ordered, OneBuild, OneSharding, Published
<1>6. console \in [step: {"down", "index", "scores", "catalog", "cluster", "up"},
                   version: Builds, todo: Seq(IndexSet), has: Builds,
                   scores: Builds, torn: BOOLEAN]
  BY DEF WholeInv, Typed, ConsoleOk
<1>7. /\ console'.step \in {"index", "scores", "catalog"} =>
            builds > 0 /\ console'.version = {builds}
      /\ console'.step = "index" => console'.has \in {{}, console'.version}
      /\ console'.step \in {"scores", "catalog", "cluster", "up"} =>
            console'.has = console'.version
  <2>1. CASE console' = Down
    BY <2>1 DEF Down
  <2>2. CASE StartConsole
    <3>1. /\ console'.step = "index" /\ console'.version = objects[IndexMarker]
          /\ console'.has = {} /\ IndexMarker \in DOMAIN objects /\ building = 0
      BY <1>1, <2>2 DEF StartConsole, Down, DownloadBegins, JobsAreIdle
    <3>2. IndexMarker \in ToSet(BuildPlan)
      BY BuildPlanHas DEF IndexObjects
    <3>3. builds # 0 /\ objects[IndexMarker] = {builds}
      BY <1>1, <3>1, <3>2 DEF Ordered, OneBuild, Published
    <3> QED
      BY <3>1, <3>3 DEF WholeInv, Typed
  <2>3. CASE GetIndexFile
    <3> DEFINE key == Head(console.todo)
    <3>1. console.step = "index" /\ key \in IndexSet /\ building = 0
      <4>1. console.step = "index" /\ console.todo # <<>>
        BY <2>3 DEF GetIndexFile, WholeInv, Typed, ConsoleOk
      <4> QED
        BY <1>2, <1>6, <4>1, Todo DEF Loading
    <3>2. /\ builds > 0 /\ console.version = {builds}
          /\ console.has \in {{}, console.version}
      BY <1>1, <3>1 DEF Ordered, ReadersAreWhole
    <3>3. key \in ToSet(BuildPlan)
      BY <3>1, BuildPlanHas DEF IndexObjects
    <3>4. objects[key] = {builds}
      BY <1>1, <3>1, <3>2, <3>3 DEF Ordered, OneBuild, Published
    <3>5. console' = [console EXCEPT !.has = @ \cup objects[key], !.todo = Tail(@),
                          !.step = IF Len(console.todo) = 1 THEN "scores" ELSE "index"]
      BY <2>3 DEF GetIndexFile
    <3> HIDE DEF key
    <3>6. /\ console'.step \in {"index", "scores"} /\ console'.version = console.version
          /\ console'.has = console.has \cup objects[key]
      BY <1>6, <3>5
    <3> QED
      BY <3>2, <3>4, <3>6
  <2>4. CASE (GetScores \/ CheckCatalog \/ GetManifest) /\ console' # Down
    <3>1. /\ console.step \in {"scores", "catalog", "cluster"}
          /\ console'.version = console.version /\ console'.has = console.has
          /\ console'.step \in {"catalog", "cluster", "up"}
          /\ console'.step = "catalog" => console.step = "scores"
      <4>1. CASE GetScores
        BY <1>6, <2>4, <4>1 DEF GetScores
      <4>2. CASE CheckCatalog
        BY <1>6, <2>4, <4>2 DEF CheckCatalog
      <4>3. CASE GetManifest
        BY <1>6, <2>4, <4>3 DEF GetManifest
      <4> QED
        BY <2>4, <4>1, <4>2, <4>3
    <3> QED
      BY <1>1, <3>1 DEF Ordered, ReadersAreWhole
  <2> QED
    BY <2>1, <2>2, <2>3, <2>4 DEF ConsoleStep, StopConsole
<1>8. ReadersAreWhole'
  BY <1>1, <1>7 DEF Ordered, ReadersAreWhole, Loading
<1> QED
  BY <1>4, <1>5, <1>8 DEF Ordered

LEMMA OrderStep == OrderInv /\ [Next]_vars => OrderInv'
<1> SUFFICES ASSUME OrderInv, [Next]_vars, orderly' PROVE Ordered'
  BY WholeStep DEF OrderInv
<1>1. WholeInv /\ (orderly => Ordered)
  BY DEF OrderInv
<1>2. CASE StartBuild \/ PutBuild
  BY <1>1, <1>2, BuildOrdered
<1>3. CASE StartSharding \/ GetSource \/ PutShard
  BY <1>1, <1>3, ShardingOrdered
<1>4. CASE StartRank \/ PutScores
  <2>1. /\ orderly /\ UNCHANGED <<builds, building, sharding, console, replica>>
        /\ objects' = objects \/ objects' = PutObject(objects, Scores, ranking)
    BY <1>4 DEF StartRank, PutScores, JobBegins, readers, counts
  <2>2. \A k \in IndexObjects \cup SourceObjects \cup ShardObjects :
           /\ k \in DOMAIN objects' <=> k \in DOMAIN objects
           /\ k \in DOMAIN objects => objects'[k] = objects[k]
    <3>1. CASE objects' = objects
      BY <3>1
    <3>2. CASE objects' = PutObject(objects, Scores, ranking)
      <4>1. /\ DOMAIN objects' = DOMAIN objects \cup {Scores}
            /\ \A k \in DOMAIN objects : k # Scores => objects'[k] = objects[k]
        BY <3>2, Put
      <4> QED
        BY <4>1, KeysDiffer
    <3> QED
      BY <2>1, <3>1, <3>2
  <2> QED
    BY <1>1, <2>1, <2>2, StillOrdered DEF WholeInv
<1>5. CASE Interrupt
  BY <1>5 DEF Interrupt
<1>6. CASE ReplicaStep \/ StopReplica
  BY <1>1, <1>6, ReplicaOrdered
<1>7. CASE ConsoleStep \/ StopConsole
  BY <1>1, <1>7, ConsoleOrdered
<1>8. CASE UNCHANGED vars
  <2>1. orderly /\ UNCHANGED <<objects, builds, building, sharding, console, replica>>
    BY <1>8 DEF vars, jobs, readers, counts
  <2> QED
    BY <1>1, <2>1, StillOrdered DEF WholeInv
<1> QED
  BY <1>2, <1>3, <1>4, <1>5, <1>6, <1>7, <1>8 DEF Next, JobStep

\* When jobs and downloads neither overlap nor fail, a replica announces the
\* build that it serves and the console has the index of its version, for any
\* number of builds and shardings before.
THEOREM OrderlyIndexIsWhole == Spec => []OrderlyIsWhole
<1>1. Init => OrderInv
  <2> SUFFICES ASSUME Init PROVE WholeInv /\ Ordered
    BY DEF OrderInv
  <2>1. /\ DOMAIN objects = {} /\ building = 0 /\ builds = 0
        /\ console = Down /\ replica = NoReplica /\ sharding = IdleSharding
    BY DEF Init, NoObjects
  <2>2. Exclusion /\ ReadersAreWhole
    BY <2>1 DEF Exclusion, Loading, ReadersAreWhole, Down, NoReplica
  <2>3. OneBuild /\ OneSharding
    BY <2>1 DEF OneBuild, OneSharding, Published, IdleSharding
  <2> QED
    BY <2>2, <2>3, WholeInit DEF Ordered
<1>2. OrderInv => OrderlyIsWhole
  BY DEF OrderInv, Ordered, ReadersAreWhole, OrderlyIsWhole
<1> QED
  BY <1>1, <1>2, OrderStep, PTL DEF Spec
=============================================================================
