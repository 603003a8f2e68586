-------------------------- MODULE ShardServingProofs --------------------------
(***************************************************************************)
(* What holds of the registry and of a search over it, for every number of *)
(* replicas, shards, files, builds, starts and consoles and every time to  *)
(* live.                                                                   *)
(*                                                                         *)
(* RegistryIsTrue: while what is under shard-index/ is settled, every file *)
(* there is of the version of the marker, so that a load that nothing was  *)
(* put during has one build, and reads its version.  A start is counted,   *)
(* so that an entry which was made before is of an earlier one; and an     *)
(* entry is only ever written from the record of its own replica.          *)
(*                                                                         *)
(* CachedIsComplete: each target of a snapshot is an entry that was in the *)
(* registry, so that a replica of the same start that nothing disturbed    *)
(* answers from the version searched; and what is cached was answered by   *)
(* every shard of the cluster.                                             *)
(***************************************************************************)
EXTENDS ConsoleSearch, FiniteSetTheorems, WellFoundedInduction, TLAPS

Starting == {"get", "marker", "healthy"}
Serving  == {"up", "alone"}

State == [step: {"down"} \cup Starting \cup Serving, next: Nat, has: SUBSET Nat,
          version: Nat, start: Nat, undisturbed: BOOLEAN]
Row   == [version: Nat, start: Nat, age: Nat]

BuildsTyped   == /\ built \in Nat /\ marker \in Nat /\ settled \in BOOLEAN
                 /\ shards \in [FileKey -> SUBSET Nat]
                 /\ sharding \in [step: {"idle", "get", "put"}, version: Nat,
                                  has: SUBSET Nat, todo: SUBSET FileKey]
ReplicasTyped == replica \in [Replica -> State]
RegistryTyped == /\ registry = [r \in DOMAIN registry |-> registry[r]]
                 /\ DOMAIN registry \subseteq Replica
                 /\ \A r \in DOMAIN registry : registry[r] \in Row

ServingTyped == BuildsTyped /\ ReplicasTyped /\ RegistryTyped

\* What has been put is of the version of the marker, if it is settled; what
\* shard-index is putting is what it has read.
SourceInv ==
    /\ settled => marker = Unversioned \/ \A k \in FileKey : shards[k] = {marker}
    /\ sharding.step = "put" =>
          \A k \in FileKey \ sharding.todo : shards[k] = sharding.has

\* What a replica whose load was not disturbed has loaded.
LoadOk(rep) ==
    /\ rep.step = "get" => rep.next \in 1 .. Files
    /\ rep.step = "marker" => rep.next > 1
    /\ rep.step \in {"get", "marker"} /\ rep.undisturbed =>
          /\ settled
          /\ marker = Unversioned \/ rep.has = IF rep.next = 1 THEN {} ELSE {marker}
    /\ rep.step \in {"healthy", "up", "alone"} /\ rep.undisturbed =>
          rep.version = Unversioned \/ rep.has = {rep.version}

\* An entry is of the start that runs, or of one before.
EntryOk(e, rep) ==
    /\ e.start <= rep.start
    /\ rep.step \in Starting => e.start # rep.start
    /\ rep.step \in Serving => e.start = rep.start /\ e.version = rep.version

LoadInv  == \A r \in Replica : LoadOk(replica[r])
EntryInv == \A r \in DOMAIN registry : EntryOk(registry[r], replica[r])

ServingInv == ServingTyped /\ SourceInv /\ LoadInv /\ EntryInv

-----------------------------------------------------------------------------
LEMMA ServingInitInv == ServingInit => ServingInv
<1> SUFFICES ASSUME ServingInit PROVE ServingInv
  OBVIOUS
<1>1. BuildsTyped
  BY ServingAssumption DEF ServingInit, BuildsTyped, IdleSharding, Unversioned
<1>2. \A r \in Replica : /\ replica[r] \in State /\ LoadOk(replica[r])
                        /\ replica[r].version = marker /\ replica[r].start = 0
                        /\ replica[r].step = "up"
  BY <1>1, ServingAssumption
     DEF ServingInit, BuildsTyped, State, Starting, Serving, LoadOk, Unversioned
<1>3. ReplicasTyped
  BY <1>2 DEF ServingInit, ReplicasTyped
<1>4. DOMAIN registry = Replica /\ registry = [r \in DOMAIN registry |-> registry[r]]
  BY DEF ServingInit
<1>5. \A r \in Replica : registry[r] \in Row /\ EntryOk(registry[r], replica[r])
  BY <1>1, <1>2 DEF ServingInit, BuildsTyped, Row, EntryOk, Starting, Serving
<1>6. SourceInv
  BY DEF ServingInit, SourceInv, IdleSharding
<1> QED
  BY <1>1, <1>2, <1>3, <1>4, <1>5, <1>6
     DEF ServingInv, ServingTyped, RegistryTyped, LoadInv, EntryInv

\* One replica moves, and its entry.
LEMMA MoveKeeps ==
    ASSUME ServingInv, NEW r \in Replica, NEW new \in State,
           replica' = [replica EXCEPT ![r] = new],
           UNCHANGED <<built, published>>,
           LoadOk(new),
           registry' = [q \in DOMAIN registry' |-> registry'[q]],
           DOMAIN registry' \subseteq DOMAIN registry \cup {r},
           \A q \in DOMAIN registry' \ {r} : registry'[q] = registry[q],
           r \in DOMAIN registry' => registry'[r] \in Row /\ EntryOk(registry'[r], new)
    PROVE  ServingInv'
<1> USE DEF ServingInv, ServingTyped
<1>1. replica'[r] = new /\ \A q \in Replica \ {r} : replica'[q] = replica[q]
  BY DEF ReplicasTyped
<1>2. ReplicasTyped'
  BY DEF ReplicasTyped
<1>3. BuildsTyped' /\ SourceInv'
  BY DEF published, BuildsTyped, SourceInv, FileKey, Shard, Unversioned
<1>4. RegistryTyped'
  BY DEF RegistryTyped
<1>5. UNCHANGED <<marker, settled>>
  BY DEF published
<1>6. LoadInv'
  <2> SUFFICES ASSUME NEW q \in Replica PROVE LoadOk(replica[q])'
    BY DEF LoadInv
  <2>1. PICK it : it = replica'[q]
    OBVIOUS
  <2>2. LoadOk(it)
    BY <1>1, <2>1 DEF LoadInv
  <2> QED
    BY <1>5, <2>1, <2>2 DEF LoadOk, Unversioned
<1>7. EntryInv'
  <2> SUFFICES ASSUME NEW q \in DOMAIN registry'
               PROVE  EntryOk(registry'[q], replica'[q])
    BY DEF EntryInv, EntryOk, Starting, Serving
  <2>1. CASE q = r
    BY <2>1, <1>1
  <2>2. CASE q # r
    <3>1. q \in DOMAIN registry /\ q \in Replica /\ registry'[q] = registry[q]
      BY <2>2 DEF RegistryTyped
    <3> QED
      BY <3>1, <2>2, <1>1 DEF EntryInv
  <2> QED
    BY <2>1, <2>2
<1> QED
  BY <1>2, <1>3, <1>4, <1>6, <1>7

\* One replica moves, beside the registry.
LEMMA ReplicaKeeps ==
    ASSUME ServingInv, NEW r \in Replica, NEW new \in State,
           replica' = [replica EXCEPT ![r] = new],
           UNCHANGED <<built, published, registry>>,
           LoadOk(new),
           r \in DOMAIN registry => EntryOk(registry[r], new)
    PROVE  ServingInv'
<1>1. RegistryTyped
  BY DEF ServingInv, ServingTyped
<1> QED
  BY <1>1, MoveKeeps DEF RegistryTyped

\* A replica stops, whether its entry goes or not.
LEMMA StopKeeps ==
    ASSUME ServingInv, NEW r \in Replica,
           registry' \in {registry, Deregistered(r)},
           replica' = Stopped(r),
           UNCHANGED <<built, published>>
    PROVE  ServingInv'
<1> DEFINE new == [NotStarted EXCEPT !.start = replica[r].start]
<1>1. replica[r] \in State /\ RegistryTyped
  BY DEF ServingInv, ServingTyped, ReplicasTyped
<1>2. replica' = [replica EXCEPT ![r] = new]
  BY DEF Stopped
<1>3. new \in State /\ LoadOk(new) /\ new.start = replica[r].start /\ new.step = "down"
  BY <1>1 DEF NotStarted, State, LoadOk, Unversioned
<1> HIDE DEF new
<1>4. r \in DOMAIN registry => registry[r] \in Row /\ EntryOk(registry[r], new)
  BY <1>1, <1>3 DEF RegistryTyped, ServingInv, EntryInv, EntryOk, Starting, Serving
<1>5. CASE registry' = registry
  BY <1>1, <1>2, <1>3, <1>4, <1>5, MoveKeeps DEF RegistryTyped
<1>6. CASE registry' = Deregistered(r)
  <2>1. /\ DOMAIN registry' = DOMAIN registry \ {r}
        /\ \A q \in DOMAIN registry' : registry'[q] = registry[q]
        /\ registry' = [q \in DOMAIN registry' |-> registry'[q]]
    BY <1>6 DEF Deregistered, Restrict
  <2> QED
    BY <1>2, <1>3, <2>1, MoveKeeps
<1> QED
  BY <1>5, <1>6

\* The entries that are left are as they were, but for their ages.
LEMMA EntriesKeep ==
    ASSUME ServingInv,
           DOMAIN registry' \subseteq DOMAIN registry,
           registry' = [r \in DOMAIN registry' |-> registry'[r]],
           \A r \in DOMAIN registry' : /\ registry'[r] \in Row
                                       /\ registry'[r].version = registry[r].version
                                       /\ registry'[r].start = registry[r].start,
           UNCHANGED <<built, published, replica>>
    PROVE  ServingInv'
<1>1. BuildsTyped' /\ ReplicasTyped' /\ SourceInv' /\ LoadInv'
  BY DEF ServingInv, ServingTyped, BuildsTyped, ReplicasTyped, SourceInv, LoadInv,
         LoadOk, published, FileKey, Shard, Unversioned
<1>2. RegistryTyped'
  BY DEF ServingInv, ServingTyped, RegistryTyped
<1>3. EntryInv'
  BY DEF ServingInv, EntryInv, EntryOk, Starting, Serving
<1> QED
  BY <1>1, <1>2, <1>3 DEF ServingInv, ServingTyped

\* What shard-index puts: the replicas that load are disturbed.
LEMMA DisturbedKeeps ==
    ASSUME ServingInv, BuildsTyped', SourceInv', replica' = Disturbed,
           UNCHANGED registry
    PROVE  ServingInv'
<1> USE DEF ServingInv, ServingTyped
<1>1. ASSUME NEW r \in Replica
      PROVE  /\ replica'[r] \in State
             /\ Loading(r) => replica'[r] = [replica[r] EXCEPT !.undisturbed = FALSE]
             /\ ~Loading(r) => replica'[r] = replica[r]
             /\ replica'[r].step = replica[r].step /\ replica'[r].start = replica[r].start
             /\ replica'[r].version = replica[r].version
  BY DEF ReplicasTyped, State, Disturbed
<1>2. ReplicasTyped'
  BY <1>1 DEF ReplicasTyped, Disturbed
<1>3. RegistryTyped'
  BY DEF RegistryTyped
<1>4. LoadInv'
  <2> SUFFICES ASSUME NEW r \in Replica PROVE LoadOk(replica[r])'
    BY DEF LoadInv
  <2>1. LoadOk(replica[r]) /\ replica[r] \in State
    BY DEF LoadInv, ReplicasTyped
  <2>2. CASE Loading(r)
    <3>1. replica'[r] = [replica[r] EXCEPT !.undisturbed = FALSE]
      BY <1>1, <2>2
    <3> QED
      BY <2>1, <2>2, <3>1 DEF LoadOk, Loading, State
  <2>3. CASE ~Loading(r)
    BY <1>1, <2>1, <2>3 DEF LoadOk, Loading, Unversioned
  <2> QED
    BY <2>2, <2>3
<1>5. EntryInv'
  <2> SUFFICES ASSUME NEW r \in DOMAIN registry PROVE EntryOk(registry[r], replica[r])'
    BY DEF EntryInv
  <2>1. r \in Replica /\ EntryOk(registry[r], replica[r])
    BY DEF EntryInv, RegistryTyped
  <2> QED
    BY <1>1, <2>1 DEF EntryOk, Starting, Serving
<1> QED
  BY <1>2, <1>3, <1>4, <1>5

\* shard-index, and what it reads.
LEMMA PublicationKeeps ==
    ASSUME ServingInv,
           \/ BuildIndex \/ StartSharding \/ GetSource
           \/ PutShardFile \/ PutMarker \/ InterruptSharding
    PROVE  ServingInv'
<1>1. /\ built \in Nat /\ marker \in Nat /\ settled \in BOOLEAN
      /\ shards \in [FileKey -> SUBSET Nat]
      /\ sharding \in [step: {"idle", "get", "put"}, version: Nat,
                       has: SUBSET Nat, todo: SUBSET FileKey]
      /\ SourceInv
  BY DEF ServingInv, ServingTyped, BuildsTyped
<1>2. IdleSharding \in [step: {"idle", "get", "put"}, version: Nat,
                        has: SUBSET Nat, todo: SUBSET FileKey]
  BY DEF IdleSharding, Unversioned
<1>3. CASE UNCHANGED <<shards, marker, settled, replica, registry>>
           /\ (BuildIndex \/ StartSharding \/ GetSource \/ InterruptSharding)
  <2>1. /\ built' \in Nat
        /\ sharding' \in [step: {"idle", "get", "put"}, version: Nat,
                          has: SUBSET Nat, todo: SUBSET FileKey]
        /\ sharding'.step = "put" =>
              UNCHANGED sharding \/ sharding'.todo = FileKey
    <3>1. CASE BuildIndex
      BY <3>1, <1>1 DEF BuildIndex, published
    <3>2. CASE StartSharding
      BY <3>2, <1>1 DEF StartSharding, IdleSharding, Unversioned
    <3>3. CASE GetSource
      <4>1. PICK has \in SUBSET (sharding.version .. built) :
               sharding' = [sharding EXCEPT !.step = "put", !.has = has, !.todo = FileKey]
        BY <3>3 DEF GetSource
      <4>2. has \in SUBSET Nat
        BY <1>1
      <4> QED
        BY <3>3, <4>1, <4>2, <1>1 DEF GetSource
    <3>4. CASE InterruptSharding
      BY <3>4, <1>1, <1>2 DEF InterruptSharding, IdleSharding
    <3> QED
      BY <1>3, <3>1, <3>2, <3>3, <3>4
  <2>2. UNCHANGED FileKey
    BY DEF FileKey, Shard
  <2>3. BuildsTyped' /\ SourceInv'
    BY <1>1, <1>3, <2>1, <2>2 DEF BuildsTyped, SourceInv, Unversioned
  <2>4. ReplicasTyped' /\ RegistryTyped' /\ LoadInv' /\ EntryInv'
    BY <1>3 DEF ServingInv, ServingTyped, ReplicasTyped, RegistryTyped, LoadInv,
                LoadOk, EntryInv, EntryOk, Unversioned, Starting, Serving
  <2> QED
    BY <2>3, <2>4 DEF ServingInv, ServingTyped
<1>4. CASE PutShardFile
  <2>1. PICK k \in sharding.todo :
           /\ shards' = [shards EXCEPT ![k] = sharding.has]
           /\ sharding' = [sharding EXCEPT !.todo = @ \ {k}]
    BY <1>4 DEF PutShardFile
  <2>2. /\ sharding.step = "put" /\ settled' = FALSE /\ replica' = Disturbed
        /\ UNCHANGED <<built, marker, registry>>
    BY <1>4 DEF PutShardFile
  <2>3. /\ sharding'.step = "put" /\ sharding'.has = sharding.has
        /\ sharding'.todo = sharding.todo \ {k} /\ k \in FileKey
        /\ sharding' \in [step: {"idle", "get", "put"}, version: Nat,
                          has: SUBSET Nat, todo: SUBSET FileKey]
        /\ shards' \in [FileKey -> SUBSET Nat]
        /\ shards'[k] = sharding.has
        /\ \A j \in FileKey \ {k} : shards'[j] = shards[j]
    BY <1>1, <2>1, <2>2
  <2>4. UNCHANGED FileKey
    BY DEF FileKey, Shard
  <2>5. BuildsTyped'
    BY <1>1, <2>2, <2>3, <2>4 DEF BuildsTyped
  <2>6. SourceInv'
    BY <1>1, <2>2, <2>3, <2>4 DEF SourceInv
  <2> QED
    BY <2>2, <2>5, <2>6, DisturbedKeeps
<1>5. CASE PutMarker
  <2>1. /\ sharding.step = "put" /\ sharding.todo = {} /\ marker' = sharding.version
        /\ sharding' = IdleSharding /\ settled' = (sharding.has = {sharding.version})
        /\ replica' = Disturbed /\ UNCHANGED <<built, shards, registry>>
    BY <1>5 DEF PutMarker
  <2>2. UNCHANGED FileKey
    BY DEF FileKey, Shard
  <2>3. BuildsTyped'
    BY <1>1, <1>2, <2>1, <2>2 DEF BuildsTyped
  <2>4. \A k \in FileKey : shards[k] = sharding.has
    BY <1>1, <2>1 DEF SourceInv
  <2>5. SourceInv'
    BY <2>1, <2>2, <2>4 DEF SourceInv, IdleSharding
  <2> QED
    BY <2>1, <2>3, <2>5, DisturbedKeeps
<1> QED
  BY <1>3, <1>4, <1>5
     DEF BuildIndex, StartSharding, GetSource, InterruptSharding, published

-----------------------------------------------------------------------------
\* A start: what was registered before is of an earlier one.
LEMMA StartKeeps ==
    ASSUME ServingInv, NEW r \in Replica, StartReplica(r)
    PROVE  ServingInv'
<1> DEFINE new == [NotStarted EXCEPT !.step = "get", !.start = replica[r].start + 1,
                                     !.undisturbed = settled]
<1>1. /\ replica' = [replica EXCEPT ![r] = new]
      /\ UNCHANGED <<built, published, registry>>
  BY DEF StartReplica
<1>2. replica[r] \in State /\ settled \in BOOLEAN
  BY DEF ServingInv, ServingTyped, ReplicasTyped, BuildsTyped
<1>3. replica[r].start \in Nat
  BY <1>2 DEF State
<1>4. /\ new \in State /\ new.step = "get" /\ new.next = 1 /\ new.has = {}
      /\ new.start = replica[r].start + 1 /\ new.undisturbed = settled
  <2>1. NotStarted \in State /\ NotStarted.next = 1 /\ NotStarted.has = {}
    BY DEF NotStarted, State, Unversioned
  <2>2. replica[r].start + 1 \in Nat
    BY <1>3
  <2>3. /\ new \in State /\ new.step = "get" /\ new.next = NotStarted.next
        /\ new.has = NotStarted.has /\ new.start = replica[r].start + 1
    BY <2>1, <2>2, <1>2 DEF State, Starting
  <2>4. new.undisturbed = settled
    BY <2>1, <1>2 DEF State
  <2> QED
    BY <2>1, <2>3, <2>4
<1> HIDE DEF new
<1>5. LoadOk(new)
  BY <1>4, ServingAssumption DEF LoadOk
<1>6. r \in DOMAIN registry => EntryOk(registry[r], new)
  BY <1>3, <1>4
     DEF ServingInv, ServingTyped, RegistryTyped, Row, EntryInv, EntryOk, Serving
<1> QED
  BY <1>1, <1>4, <1>5, <1>6, ReplicaKeeps

\* A file that is settled is of the version of the marker.
LEMMA GetKeeps ==
    ASSUME ServingInv, NEW r \in Replica, GetShardFile(r)
    PROVE  ServingInv'
<1> DEFINE file == shards[<<ShardOf[r], replica[r].next>>]
           new  == [replica[r] EXCEPT !.has = @ \cup file, !.next = @ + 1,
                                      !.step = IF replica[r].next = Files
                                               THEN "marker" ELSE "get"]
<1>1. /\ replica' = [replica EXCEPT ![r] = new] /\ replica[r].step = "get"
      /\ UNCHANGED <<built, published, registry>>
  BY DEF GetShardFile
<1>2. replica[r] \in State /\ LoadOk(replica[r])
  BY DEF ServingInv, ServingTyped, ReplicasTyped, LoadInv
<1>3. replica[r].next \in 1 .. Files /\ replica[r].next \in Nat /\ Files \in Nat
  BY <1>1, <1>2, ServingAssumption DEF LoadOk
<1>4. <<ShardOf[r], replica[r].next>> \in FileKey
  BY <1>3, ServingAssumption DEF FileKey, Shard, Range
<1>5. /\ file \in SUBSET Nat
      /\ settled => marker = Unversioned \/ file = {marker}
  BY <1>4 DEF ServingInv, ServingTyped, BuildsTyped, SourceInv
<1> HIDE DEF file
<1>6. /\ new \in State /\ new.next = replica[r].next + 1
      /\ new.has = replica[r].has \cup file
      /\ new.step = IF replica[r].next = Files THEN "marker" ELSE "get"
      /\ new.start = replica[r].start /\ new.undisturbed = replica[r].undisturbed
  <2>1. /\ replica[r].has \cup file \in SUBSET Nat
        /\ replica[r].next + 1 \in Nat
        /\ (IF replica[r].next = Files THEN "marker" ELSE "get") \in Starting
    <3>1. replica[r].has \in SUBSET Nat
      BY <1>2 DEF State
    <3>2. replica[r].has \cup file \in SUBSET Nat
      BY <1>5, <3>1
    <3>3. replica[r].next + 1 \in Nat
      BY <1>3
    <3> HIDE DEF new
    <3> QED
      BY <3>2, <3>3 DEF Starting
  <2> DEFINE has  == replica[r].has \cup file
             next == replica[r].next + 1
             step == IF replica[r].next = Files THEN "marker" ELSE "get"
  <2>2. new = [replica[r] EXCEPT !.has = has, !.next = next, !.step = step]
    OBVIOUS
  <2>3. has \in SUBSET Nat /\ next \in Nat /\ step \in Starting
    BY <2>1
  <2> HIDE DEF has, next, step, new
  <2>4. /\ new \in State /\ new.next = next /\ new.has = has /\ new.step = step
        /\ new.start = replica[r].start /\ new.undisturbed = replica[r].undisturbed
    BY <1>2, <2>2, <2>3 DEF State
  <2> QED
    BY <2>4 DEF has, next, step
<1> HIDE DEF new
<1>7. LoadOk(new)
  <2>1. new.step = "get" => new.next \in 1 .. Files
    BY <1>3, <1>6
  <2>2. new.next > 1 /\ new.next # 1 /\ new.step \in {"get", "marker"}
    BY <1>3, <1>6
  <2>3. new.undisturbed => settled /\ (marker = Unversioned \/ new.has = {marker})
    BY <1>1, <1>2, <1>5, <1>6 DEF LoadOk
  <2> QED
    BY <2>1, <2>2, <2>3 DEF LoadOk
<1>8. r \in DOMAIN registry => EntryOk(registry[r], new)
  BY <1>1, <1>6 DEF ServingInv, EntryInv, EntryOk, Starting, Serving
<1> QED
  BY <1>1, <1>6, <1>7, <1>8, ReplicaKeeps

\* And so is the version that is read.
LEMMA VersionKeeps ==
    ASSUME ServingInv, NEW r \in Replica, ReadIndexVersion(r)
    PROVE  ServingInv'
<1> DEFINE new == [replica[r] EXCEPT !.version = marker, !.step = "healthy"]
<1>1. /\ replica' = [replica EXCEPT ![r] = new] /\ replica[r].step = "marker"
      /\ UNCHANGED <<built, published, registry>>
  BY DEF ReadIndexVersion
<1>2. replica[r] \in State /\ LoadOk(replica[r]) /\ marker \in Nat
  BY DEF ServingInv, ServingTyped, ReplicasTyped, BuildsTyped, LoadInv
<1>3. /\ new \in State /\ new.step = "healthy" /\ new.version = marker
      /\ new.has = replica[r].has /\ new.start = replica[r].start
      /\ new.undisturbed = replica[r].undisturbed
  BY <1>2 DEF State, Starting
<1> HIDE DEF new
<1>4. LoadOk(new)
  <2>1. replica[r].next > 1 /\ replica[r].next \in Nat
    BY <1>1, <1>2 DEF LoadOk, State
  <2>2. new.undisturbed => marker = Unversioned \/ new.has = {marker}
    BY <1>1, <1>2, <1>3, <2>1 DEF LoadOk
  <2> QED
    BY <1>3, <2>2 DEF LoadOk
<1>5. r \in DOMAIN registry => EntryOk(registry[r], new)
  BY <1>1, <1>3 DEF ServingInv, EntryInv, EntryOk, Starting, Serving
<1> QED
  BY <1>1, <1>3, <1>4, <1>5, ReplicaKeeps

\* An entry is made from the record of its replica.
LEMMA RegisteredIs ==
    ASSUME ServingInv, NEW r \in Replica, NEW age \in Nat,
           registry' = Registered(r, age)
    PROVE  /\ DOMAIN registry' = DOMAIN registry \cup {r}
           /\ registry' = [q \in DOMAIN registry' |-> registry'[q]]
           /\ \A q \in DOMAIN registry' \ {r} : registry'[q] = registry[q]
           /\ registry'[r] \in Row
           /\ registry'[r].version = replica[r].version
           /\ registry'[r].start = replica[r].start
<1>1. replica[r].version \in Nat /\ replica[r].start \in Nat
  BY DEF ServingInv, ServingTyped, ReplicasTyped, State
<1>2. registry'[r] = [version |-> replica[r].version,
                      start   |-> replica[r].start, age |-> age]
  BY DEF Registered
<1>3. registry'[r] \in Row
  BY <1>1, <1>2 DEF Row
<1> QED
  BY <1>2, <1>3 DEF Registered

LEMMA RegisterKeeps ==
    ASSUME ServingInv, NEW r \in Replica, Register(r)
    PROVE  ServingInv'
<1> DEFINE new == [replica[r] EXCEPT !.step = "up"]
<1>1. /\ replica' = [replica EXCEPT ![r] = new] /\ replica[r].step = "healthy"
      /\ registry' = Registered(r, 0) /\ UNCHANGED <<built, published>>
  BY DEF Register
<1>2. replica[r] \in State /\ LoadOk(replica[r])
  BY DEF ServingInv, ServingTyped, ReplicasTyped, LoadInv
<1>3. /\ new \in State /\ new.step = "up" /\ new.version = replica[r].version
      /\ new.has = replica[r].has /\ new.start = replica[r].start
      /\ new.undisturbed = replica[r].undisturbed /\ new.start \in Nat
  BY <1>2 DEF State, Serving
<1> HIDE DEF new
<1>4. LoadOk(new)
  BY <1>1, <1>2, <1>3 DEF LoadOk
<1>5. EntryOk(registry'[r], new)
  <2>1. /\ registry'[r].version = replica[r].version
        /\ registry'[r].start = replica[r].start
    BY <1>1, RegisteredIs
  <2> QED
    BY <1>3, <2>1 DEF EntryOk, Starting
<1> QED
  BY <1>1, <1>3, <1>4, <1>5, RegisteredIs, MoveKeeps

LEMMA RegisterFailsKeeps ==
    ASSUME ServingInv, NEW r \in Replica, RegisterFails(r)
    PROVE  ServingInv'
<1>1. CASE registry' = registry
  BY <1>1, StopKeeps DEF RegisterFails
<1>2. CASE registry' = Registered(r, Ttl + 1)
  <2> DEFINE new == [NotStarted EXCEPT !.start = replica[r].start]
  <2>1. /\ replica' = [replica EXCEPT ![r] = new] /\ UNCHANGED <<built, published>>
    BY DEF RegisterFails, Stopped
  <2>2. replica[r] \in State
    BY DEF ServingInv, ServingTyped, ReplicasTyped
  <2>3. /\ new \in State /\ LoadOk(new) /\ new.step = "down"
        /\ new.start = replica[r].start /\ new.start \in Nat
    BY <2>2 DEF NotStarted, State, LoadOk, Unversioned
  <2> HIDE DEF new
  <2>4. Ttl + 1 \in Nat
    BY ServingAssumption
  <2>5. EntryOk(registry'[r], new)
    <3>1. registry'[r].start = replica[r].start
      BY <1>2, <2>4, RegisteredIs
    <3> QED
      BY <2>3, <3>1 DEF EntryOk, Starting, Serving
  <2> QED
    BY <1>2, <2>1, <2>3, <2>4, <2>5, RegisteredIs, MoveKeeps
<1> QED
  BY <1>1, <1>2 DEF RegisterFails

LEMMA ServerDiesKeeps ==
    ASSUME ServingInv, NEW r \in Replica, ServerDies(r)
    PROVE  ServingInv'
<1> DEFINE new == [replica[r] EXCEPT !.step = "alone"]
<1>1. /\ replica' = [replica EXCEPT ![r] = new] /\ replica[r].step = "up"
      /\ UNCHANGED <<built, published, registry>>
  BY DEF ServerDies
<1>2. replica[r] \in State /\ LoadOk(replica[r])
  BY DEF ServingInv, ServingTyped, ReplicasTyped, LoadInv
<1>3. /\ new \in State /\ new.step = "alone" /\ new.version = replica[r].version
      /\ new.has = replica[r].has /\ new.start = replica[r].start
      /\ new.undisturbed = replica[r].undisturbed
  BY <1>2 DEF State, Serving
<1> HIDE DEF new
<1>4. LoadOk(new)
  BY <1>1, <1>2, <1>3 DEF LoadOk
<1>5. r \in DOMAIN registry => EntryOk(registry[r], new)
  BY <1>1, <1>3 DEF ServingInv, EntryInv, EntryOk, Starting, Serving
<1> QED
  BY <1>1, <1>3, <1>4, <1>5, ReplicaKeeps

-----------------------------------------------------------------------------
LEMMA ServingNextInv == ServingInv /\ [ServingNext]_servingVars => ServingInv'
<1> SUFFICES ASSUME ServingInv, [ServingNext]_servingVars PROVE ServingInv'
  OBVIOUS
<1>1. RegistryTyped
  BY DEF ServingInv, ServingTyped
<1>2. CASE UNCHANGED servingVars
  BY <1>1, <1>2, EntriesKeep DEF servingVars, RegistryTyped
<1>3. CASE \/ BuildIndex \/ StartSharding \/ GetSource
           \/ PutShardFile \/ PutMarker \/ InterruptSharding
  BY <1>3, PublicationKeeps
<1>4. ASSUME NEW r \in Replica, Heartbeat(r) PROVE ServingInv'
  <2>1. /\ DOMAIN registry' = DOMAIN registry
        /\ registry' = [s \in DOMAIN registry |-> registry'[s]]
        /\ \A s \in DOMAIN registry : /\ registry'[s] \in Row
                                      /\ registry'[s].version = registry[s].version
                                      /\ registry'[s].start = registry[s].start
    BY <1>1, <1>4 DEF Heartbeat, RegistryTyped, Row
  <2> QED
    BY <2>1, <1>4, EntriesKeep DEF Heartbeat
<1>5. ASSUME NEW r \in Replica, Shutdown(r) PROVE ServingInv'
  BY <1>5, StopKeeps DEF Shutdown
<1>6. ASSUME NEW r \in Replica, Die(r) PROVE ServingInv'
  BY <1>6, StopKeeps DEF Die
<1>7. ASSUME NEW r \in Replica, Expire(r) PROVE ServingInv'
  <2>1. /\ DOMAIN registry' = DOMAIN registry \ {r}
        /\ \A q \in DOMAIN registry' : registry'[q] = registry[q]
        /\ registry' = [q \in DOMAIN registry' |-> registry'[q]]
    BY <1>7 DEF Expire, Deregistered, Restrict
  <2> QED
    BY <1>1, <1>7, <2>1, EntriesKeep DEF Expire, RegistryTyped
<1>8. CASE RegistryTick
  <2>1. \A r \in DOMAIN registry : registry[r] \in Row /\ Aged(r) \in Nat
    BY <1>1, ServingAssumption DEF RegistryTyped, Row, Aged
  <2>2. /\ DOMAIN registry' = DOMAIN registry
        /\ registry' = [s \in DOMAIN registry |-> registry'[s]]
        /\ \A s \in DOMAIN registry : /\ registry'[s] \in Row
                                      /\ registry'[s].version = registry[s].version
                                      /\ registry'[s].start = registry[s].start
    BY <1>8, <2>1 DEF RegistryTick, Row
  <2> QED
    BY <2>2, <1>8, EntriesKeep DEF RegistryTick
<1> QED
  BY <1>2, <1>3, <1>4, <1>5, <1>6, <1>7, <1>8, StartKeeps, GetKeeps, VersionKeeps,
     RegisterKeeps, RegisterFailsKeeps, ServerDiesKeeps
  DEF ServingNext, ServingStep

\* Every registration is true, of any number of files: whatever is built,
\* sharded and interrupted, and whatever replicas start, fail to register, die
\* and are restarted, whichever heartbeats are lost and entries expire (start
\* and _register in query/shard_replica_service.py, query/shard_index_pipeline.py).
THEOREM RegistrationsAreTrue == ServingSpec => []RegistryIsTrue
<1>1. ServingInv => RegistryIsTrue
  <2> SUFFICES ASSUME ServingInv, NEW r \in DOMAIN registry
               PROVE  /\ registry[r].start <= replica[r].start
                      /\ replica[r].step \in {"up", "alone"} =>
                           /\ registry[r].start = replica[r].start
                           /\ replica[r].undisturbed =>
                                 \/ registry[r].version = Unversioned
                                 \/ replica[r].has = {registry[r].version}
    BY DEF RegistryIsTrue
  <2>1. LoadOk(replica[r]) /\ EntryOk(registry[r], replica[r])
    BY DEF ServingInv, ServingTyped, RegistryTyped, LoadInv, EntryInv
  <2> QED
    BY <2>1 DEF LoadOk, EntryOk, Serving
<1> QED
  BY <1>1, ServingInitInv, ServingNextInv, PTL DEF ServingSpec

-----------------------------------------------------------------------------
(***************************************************************************)
(* The cache: an eviction keeps at most the entries it may, because the    *)
(* least recently used of those it keeps has all the others after it.      *)
(***************************************************************************)

LEMMA NatLeast ==
    ASSUME NEW T \in SUBSET Nat, T # {}
    PROVE  \E n \in T : \A m \in T : n <= m
<1> DEFINE R == {ss \in Nat \X Nat : ss[1] < ss[2]}
<1>1. IsWellFoundedOn(R, Nat)
  BY NatLessThanWellFounded DEF OpToRel
<1>2. \A m, n \in Nat : m < n => <<m, n>> \in R
  OBVIOUS
<1> HIDE DEF R
<1>3. \E n \in T : \A m \in T : ~(<<m, n>> \in R)
  BY <1>1, WFMin
<1>4. \A m \in T : m \in Nat
  OBVIOUS
<1>5. \A m, n \in Nat : <<m, n>> \notin R => n <= m
  BY <1>2
<1> QED
  BY <1>3, <1>4, <1>5, Zenon

\* The keys have entries, in an order.
InOrder(c, keys) ==
    /\ IsFiniteSet(keys)
    /\ \A k \in keys : DOMAIN c[k] = {"value", "left", "place"} /\ c[k].place \in Nat
    /\ \A j, k \in keys : c[j].place = c[k].place => j = k

\* No place is beyond the last.
Placed(c) == \A k \in DOMAIN c : c[k].place < Cardinality(DOMAIN c)

LEMMA KeepIsInOrder ==
    ASSUME NEW c, NEW keys \in SUBSET DOMAIN c, InOrder(c, keys)
    PROVE  /\ DOMAIN Keep(c, keys) = keys
           /\ \A k \in keys : Keep(c, keys)[k].value = c[k].value
           /\ InOrder(Keep(c, keys), keys) /\ Placed(Keep(c, keys))
<1> DEFINE before(k) == {j \in keys : c[j].place < c[k].place}
<1>1. /\ DOMAIN Keep(c, keys) = keys
      /\ \A k \in keys : /\ DOMAIN Keep(c, keys)[k] = {"value", "left", "place"}
                         /\ Keep(c, keys)[k].value = c[k].value
                         /\ Keep(c, keys)[k].place = Cardinality(before(k))
  BY DEF Keep, InOrder
<1>2. ASSUME NEW k \in keys
      PROVE  /\ IsFiniteSet(before(k)) /\ Cardinality(before(k)) \in Nat
             /\ Cardinality(before(k)) < Cardinality(keys)
  <2>1. before(k) \subseteq keys /\ k \notin before(k)
    BY DEF InOrder
  <2>2. before(k) # keys
    BY <2>1
  <2>3. IsFiniteSet(keys)
    BY DEF InOrder
  <2> QED
    BY <2>1, <2>2, <2>3, FS_Subset, FS_CardinalityType
<1>3. ASSUME NEW j \in keys, NEW k \in keys, c[j].place < c[k].place
      PROVE  Cardinality(before(j)) < Cardinality(before(k))
  <2>1. before(j) \subseteq before(k) /\ j \in before(k) /\ j \notin before(j)
    BY <1>3 DEF InOrder
  <2>2. IsFiniteSet(before(k)) /\ before(j) # before(k)
    BY <1>2, <2>1
  <2>3. /\ Cardinality(before(j)) <= Cardinality(before(k))
        /\ Cardinality(before(j)) # Cardinality(before(k))
    BY <2>1, <2>2, FS_Subset
  <2>4. Cardinality(before(j)) \in Nat /\ Cardinality(before(k)) \in Nat
    BY <1>2
  <2> QED
    BY <2>3, <2>4
<1>4. \A j, k \in keys : Cardinality(before(j)) = Cardinality(before(k)) => j = k
  <2> SUFFICES ASSUME NEW j \in keys, NEW k \in keys, j # k
               PROVE  Cardinality(before(j)) # Cardinality(before(k))
    OBVIOUS
  <2>1. /\ Cardinality(before(j)) \in Nat /\ Cardinality(before(k)) \in Nat
    BY <1>2
  <2>2. c[j].place < c[k].place \/ c[k].place < c[j].place
    BY DEF InOrder
  <2>3. CASE c[j].place < c[k].place
    BY <1>3, <2>1, <2>3
  <2>4. CASE c[k].place < c[j].place
    BY <1>3, <2>1, <2>4
  <2> QED
    BY <2>2, <2>3, <2>4
<1> HIDE DEF before
<1>5. InOrder(Keep(c, keys), keys)
  BY <1>1, <1>2, <1>4 DEF InOrder
<1>6. Placed(Keep(c, keys))
  BY <1>1, <1>2 DEF Placed
<1> QED
  BY <1>1, <1>5, <1>6

\* An eviction keeps some of the entries, as many as it may.
LEMMA EvictBounds ==
    ASSUME NEW c, InOrder(c, DOMAIN c), NEW max \in Nat, max > 0
    PROVE  /\ DOMAIN Evict(c, max) \subseteq DOMAIN c
           /\ Cardinality(DOMAIN Evict(c, max)) <= max
           /\ \A k \in DOMAIN Evict(c, max) : Evict(c, max)[k].value = c[k].value
           /\ InOrder(Evict(c, max), DOMAIN Evict(c, max)) /\ Placed(Evict(c, max))
<1> DEFINE later(k) == Later(c, Live(c), k)
           few  == {k \in Live(c) : Cardinality(later(k)) < max}
           kept == IF Cardinality(DOMAIN c) <= max THEN DOMAIN c ELSE few
<1>1. Evict(c, max) = Keep(c, kept)
  BY DEF Evict
<1>2. few \subseteq Live(c) /\ Live(c) \subseteq DOMAIN c
  BY DEF Live
<1>3. \A k : later(k) = {j \in Live(c) : c[j].place > c[k].place}
  BY DEF Later
<1>4. IsFiniteSet(Live(c)) /\ IsFiniteSet(few)
  BY <1>2, FS_Subset DEF InOrder
<1>5. Cardinality(few) <= max
  <2>1. CASE few = {}
    BY <2>1, FS_EmptySet
  <2>2. CASE few # {}
    <3>1. \A k \in few : /\ IsFiniteSet(later(k)) /\ Cardinality(later(k)) \in Nat
                         /\ max - Cardinality(later(k)) \in Nat
      <4> SUFFICES ASSUME NEW k \in few
                   PROVE  IsFiniteSet(later(k)) /\ Cardinality(later(k)) \in Nat
        OBVIOUS
      <4> QED
        BY <1>3, <1>4, FS_Subset, FS_CardinalityType
    <3> DEFINE rest == {max - Cardinality(later(k)) : k \in few}
    <3>2. rest \in SUBSET Nat /\ rest # {}
      BY <2>2, <3>1
    <3>3. \E n \in rest : \A m \in rest : n <= m
      BY <3>2, NatLeast
    <3>4. PICK k \in few : \A j \in few : Cardinality(later(j)) <= Cardinality(later(k))
      <4>1. PICK n \in rest : \A m \in rest : n <= m
        BY <3>3
      <4>2. PICK k \in few : n = max - Cardinality(later(k))
        BY <4>1
      <4>3. ASSUME NEW j \in few PROVE Cardinality(later(j)) <= Cardinality(later(k))
        <5>1. max - Cardinality(later(j)) \in rest
          BY <4>3
        <5>2. max - Cardinality(later(k)) <= max - Cardinality(later(j))
          BY <4>1, <4>2, <5>1
        <5>3. Cardinality(later(j)) \in Nat /\ Cardinality(later(k)) \in Nat
          BY <3>1
        <5> HIDE DEF later
        <5> QED
          BY <5>2, <5>3
      <4> QED
        BY <4>3
    <3>5. ASSUME NEW j \in few, j # k PROVE j \in later(k)
      <4>1. c[j].place \in Nat /\ c[k].place \in Nat /\ c[j].place # c[k].place
        BY <1>2, <3>5 DEF InOrder
      <4>2. ASSUME c[j].place < c[k].place PROVE FALSE
        <5>1. later(k) \subseteq later(j) /\ k \in later(j) /\ k \notin later(k)
          BY <1>2, <1>3, <4>1, <4>2 DEF InOrder
        <5>2. IsFiniteSet(later(j)) /\ later(k) # later(j)
          BY <3>1, <5>1
        <5>3. /\ Cardinality(later(k)) <= Cardinality(later(j))
              /\ Cardinality(later(k)) # Cardinality(later(j))
          BY <5>1, <5>2, FS_Subset
        <5> QED
          BY <3>1, <3>4, <5>3
      <4> QED
        BY <1>2, <1>3, <4>1, <4>2
    <3>6. few \subseteq later(k) \cup {k}
      BY <3>5
    <3>7. k \notin later(k) /\ IsFiniteSet(later(k)) /\ IsFiniteSet(later(k) \cup {k})
      BY <1>2, <1>3, <3>1, FS_AddElement DEF InOrder
    <3>8. Cardinality(later(k) \cup {k}) = Cardinality(later(k)) + 1
      BY <3>7, FS_AddElement
    <3>9. Cardinality(few) <= Cardinality(later(k) \cup {k})
      BY <3>6, <3>7, FS_Subset
    <3>10. Cardinality(few) \in Nat /\ Cardinality(later(k)) < max
      BY <1>4, FS_CardinalityType
    <3> QED
      BY <3>1, <3>8, <3>9, <3>10
  <2> QED
    BY <2>1, <2>2
<1>6. kept \subseteq DOMAIN c /\ Cardinality(kept) <= max
  BY <1>2, <1>5
<1> HIDE DEF kept
<1>7. InOrder(c, kept)
  <2>1. IsFiniteSet(kept)
    BY <1>6, FS_Subset DEF InOrder
  <2> QED
    BY <1>6, <2>1 DEF InOrder
<1> QED
  BY <1>1, <1>6, <1>7, KeepIsInOrder

-----------------------------------------------------------------------------
(***************************************************************************)
(* The search of the console, on top of true registrations.  A target that *)
(* a snapshot has taken stays true while its replica is not started again; *)
(* what another process answers, or one that was disturbed, is excused.    *)
(***************************************************************************)

\* What is said of a start is true of the replica, as long as that start runs.
StartOk(t, rep) ==
    /\ t.start <= rep.start
    /\ rep.step \in Starting => t.start # rep.start
    /\ rep.step \in Serving /\ t.start = rep.start => t.version = rep.version

TargetOk(t, v, keyed) ==
    /\ t.replica \in Replica /\ t.start \in Nat
    /\ t.version = v \/ (~keyed /\ t.version = Unversioned)
    /\ StartOk(t, replica[t.replica])

PartOk(part, keyed) == keyed => (part.exact \/ part.excused) /\ ~part.unverified

SearchOk(a) ==
    /\ DOMAIN search[a] = {"step", "targets", "parts", "keyed"}
    /\ \A s \in DOMAIN search[a].targets :
          TargetOk(search[a].targets[s], version[a], search[a].keyed)
    /\ \A s \in DOMAIN search[a].parts :
          PartOk(search[a].parts[s], search[a].keyed)
    /\ search[a].step = "store" => search[a].keyed /\ DOMAIN search[a].parts = Shard

VersionsOk ==
    /\ built > 0
    /\ version \in [Api -> Nat] /\ \A a \in Api : version[a] # Unversioned

SearchesOk == DOMAIN search = Api /\ \A a \in Api : SearchOk(a)

CacheOk == InOrder(cache, DOMAIN cache) /\ Placed(cache) /\ CachedIsComplete

SearchInv == ServingInv /\ VersionsOk /\ SearchesOk /\ CacheOk
-----------------------------------------------------------------------------
\* A search is as it should be if its targets and its parts are.
LEMMA BecomesOk ==
    ASSUME NEW a \in Api, NEW new, search'[a] = new, version'[a] = version[a],
           UNCHANGED replica,
           DOMAIN new = {"step", "targets", "parts", "keyed"},
           \A s \in DOMAIN new.targets :
              TargetOk(new.targets[s], version[a], new.keyed),
           \A s \in DOMAIN new.parts : PartOk(new.parts[s], new.keyed),
           new.step = "store" => new.keyed /\ DOMAIN new.parts = Shard
    PROVE  SearchOk(a)'
<1>1. ASSUME NEW s \in DOMAIN new.targets
      PROVE  TargetOk(new.targets[s], version[a], new.keyed)'
  BY <1>1 DEF TargetOk, StartOk, Unversioned
<1>2. ASSUME NEW s \in DOMAIN new.parts
      PROVE  PartOk(new.parts[s], new.keyed)'
  BY <1>2 DEF PartOk
<1> QED
  BY <1>1, <1>2 DEF SearchOk, Shard

\* What a replica may become, for what was said of it to stay true.
MovesTo(rep, new) ==
    /\ rep.start \in Nat /\ new.start \in Nat /\ new.start >= rep.start
    /\ new.start = rep.start =>
          \/ new = rep
          \/ new.step = "down"
          \/ rep.step \in Starting
          \/ rep.step \in Serving /\ new.step \in Serving /\ new.version = rep.version

LEMMA StartStays ==
    ASSUME NEW t, NEW rep, NEW new, t.start \in Nat, StartOk(t, rep), MovesTo(rep, new)
    PROVE  StartOk(t, new)
<1>1. t.start <= new.start
  BY DEF StartOk, MovesTo
<1>2. CASE new.start # rep.start
  <2>1. t.start # new.start
    BY <1>2 DEF StartOk, MovesTo
  <2> QED
    BY <1>1, <2>1 DEF StartOk
<1>3. CASE new.start = rep.start
  <2>1. "down" \notin Starting /\ "down" \notin Serving
    BY DEF Starting, Serving
  <2>2. Starting \cap Serving = {}
    BY DEF Starting, Serving
  <2> QED
    BY <1>1, <1>3, <2>1, <2>2 DEF StartOk, MovesTo
<1> QED
  BY <1>2, <1>3

\* A search that stays while replicas move.
LEMMA SearchStays ==
    ASSUME SearchInv, NEW a \in Api, UNCHANGED <<version, search>>,
           \A r \in Replica : MovesTo(replica[r], replica'[r])
    PROVE  SearchOk(a)'
<1>1. SearchOk(a)
  BY DEF SearchInv, SearchesOk
<1>2. ASSUME NEW t, NEW v, NEW keyed, TargetOk(t, v, keyed)
      PROVE  TargetOk(t, v, keyed)'
  <2>1. t.replica \in Replica /\ t.start \in Nat /\ StartOk(t, replica[t.replica])
    BY <1>2 DEF TargetOk
  <2>2. StartOk(t, replica'[t.replica])
    BY <2>1, StartStays
  <2> QED
    BY <1>2, <2>2 DEF TargetOk, StartOk, Unversioned
<1>3. \A s \in DOMAIN search[a].targets :
         TargetOk(search[a].targets[s], version[a], search[a].keyed)'
  BY <1>1, <1>2 DEF SearchOk
<1> QED
  BY <1>1, <1>3 DEF SearchOk, PartOk, Shard

\* What the replicas and the registry do while a console searches.
LEMMA ServingMoves ==
    ASSUME ServingInv, [ServingNext]_servingVars
    PROVE  /\ built' >= built
           /\ \A r \in Replica : MovesTo(replica[r], replica'[r])
<1>1. /\ built \in Nat /\ replica \in [Replica -> State]
      /\ \A r \in Replica : replica[r] \in State /\ replica[r].start \in Nat
  BY DEF ServingInv, ServingTyped, BuildsTyped, ReplicasTyped, State
<1>2. CASE UNCHANGED replica /\ (UNCHANGED built \/ BuildIndex)
  BY <1>1, <1>2 DEF BuildIndex, MovesTo
<1>3. CASE replica' = Disturbed /\ UNCHANGED built
  <2>1. ASSUME NEW q \in Replica PROVE MovesTo(replica[q], replica'[q])
    <3>1. /\ replica'[q].start = replica[q].start
          /\ Loading(q) \/ replica'[q] = replica[q]
      BY <1>1, <1>3 DEF Disturbed, State
    <3> QED
      BY <1>1, <3>1 DEF MovesTo, Loading, Starting
  <2> QED
    BY <1>1, <1>3, <2>1
<1>4. ASSUME NEW r \in Replica, NEW new, replica' = [replica EXCEPT ![r] = new],
             MovesTo(replica[r], new), UNCHANGED built
      PROVE  built' >= built /\ \A q \in Replica : MovesTo(replica[q], replica'[q])
  <2>1. \A q \in Replica : replica'[q] = IF q = r THEN new ELSE replica[q]
    BY <1>1, <1>4
  <2>2. \A q \in Replica : MovesTo(replica[q], replica[q])
    BY <1>1 DEF MovesTo
  <2> QED
    BY <1>1, <1>4, <2>1, <2>2
<1>5. ASSUME NEW r \in Replica, StartReplica(r)
      PROVE  built' >= built /\ \A q \in Replica : MovesTo(replica[q], replica'[q])
  <2> DEFINE new == [NotStarted EXCEPT !.step = "get", !.start = replica[r].start + 1,
                                       !.undisturbed = settled]
  <2>1. replica' = [replica EXCEPT ![r] = new] /\ UNCHANGED built
    BY <1>5 DEF StartReplica
  <2>2. new.start = replica[r].start + 1
    BY DEF NotStarted
  <2> HIDE DEF new
  <2>3. MovesTo(replica[r], new)
    BY <1>1, <2>2 DEF MovesTo
  <2> QED
    BY <1>4, <2>1, <2>3
<1>6. ASSUME NEW r \in Replica, replica' = Stopped(r), UNCHANGED built
      PROVE  built' >= built /\ \A q \in Replica : MovesTo(replica[q], replica'[q])
  <2> DEFINE new == [NotStarted EXCEPT !.start = replica[r].start]
  <2>1. replica' = [replica EXCEPT ![r] = new]
    BY <1>6 DEF Stopped
  <2>2. new.start = replica[r].start /\ new.step = "down"
    BY DEF NotStarted
  <2> HIDE DEF new
  <2>3. MovesTo(replica[r], new)
    BY <1>1, <2>2 DEF MovesTo
  <2> QED
    BY <1>4, <1>6, <2>1, <2>3
<1>7. ASSUME NEW r \in Replica, GetShardFile(r) \/ ReadIndexVersion(r) \/ Register(r)
      PROVE  built' >= built /\ \A q \in Replica : MovesTo(replica[q], replica'[q])
  <2>1. /\ replica'[r].start = replica[r].start /\ replica[r].step \in Starting
        /\ \A q \in Replica \ {r} : replica'[q] = replica[q]
        /\ UNCHANGED built
    BY <1>1, <1>7 DEF GetShardFile, ReadIndexVersion, Register, State, Starting
  <2>2. \A q \in Replica : MovesTo(replica[q], replica'[q])
    BY <1>1, <2>1 DEF MovesTo
  <2> QED
    BY <1>1, <2>1, <2>2
<1>8. ASSUME NEW r \in Replica, ServerDies(r)
      PROVE  built' >= built /\ \A q \in Replica : MovesTo(replica[q], replica'[q])
  <2> DEFINE new == [replica[r] EXCEPT !.step = "alone"]
  <2>1. replica' = [replica EXCEPT ![r] = new] /\ replica[r].step = "up" /\ UNCHANGED built
    BY <1>8 DEF ServerDies
  <2>2. /\ new.start = replica[r].start /\ new.step = "alone"
        /\ new.version = replica[r].version
    BY <1>1 DEF State
  <2> HIDE DEF new
  <2>3. MovesTo(replica[r], new)
    BY <1>1, <2>1, <2>2 DEF MovesTo, Serving
  <2> QED
    BY <1>4, <2>1, <2>3
<1>9. CASE UNCHANGED servingVars
  BY <1>2, <1>9 DEF servingVars
<1>10. CASE ServingNext
  BY <1>2, <1>3, <1>5, <1>6, <1>7, <1>8, <1>10
     DEF ServingNext, ServingStep, StartSharding, GetSource, PutShardFile, PutMarker,
         InterruptSharding, RegisterFails, Heartbeat, Shutdown, Die, Expire,
         RegistryTick, BuildIndex
<1> QED
  BY <1>9, <1>10

\* The other searches stay when one console moves.
LEMMA OthersStay ==
    ASSUME SearchInv, NEW a \in Api, NEW new, NEW v,
           UNCHANGED servingVars,
           version' = [version EXCEPT ![a] = v], search' = [search EXCEPT ![a] = new],
           v \in Nat, v # Unversioned,
           (version'[a] = v /\ search'[a] = new) => SearchOk(a)'
    PROVE  VersionsOk' /\ SearchesOk'
<1>1. /\ VersionsOk /\ SearchesOk /\ UNCHANGED <<built, replica>>
  BY DEF SearchInv, servingVars
<1>2. /\ version'[a] = v /\ search'[a] = new /\ DOMAIN search' = Api
      /\ \A b \in Api \ {a} : version'[b] = version[b] /\ search'[b] = search[b]
      /\ version' \in [Api -> Nat]
  BY <1>1 DEF VersionsOk, SearchesOk
<1>3. ASSUME NEW b \in Api, b # a PROVE SearchOk(b)'
  <2>1. SearchOk(b) /\ version'[b] = version[b] /\ search'[b] = search[b]
    BY <1>1, <1>2, <1>3 DEF SearchesOk
  <2> QED
    BY <1>1, <2>1 DEF SearchOk, TargetOk, StartOk, PartOk, Shard, Unversioned
<1>4. VersionsOk'
  BY <1>1, <1>2 DEF VersionsOk, Unversioned
<1>5. SearchesOk'
  BY <1>2, <1>3 DEF SearchesOk
<1> QED
  BY <1>4, <1>5

\* A snapshot chooses replicas that are registered.
LEMMA ChosenIsRegistered ==
    ASSUME ServingInv, NEW s \in DOMAIN Chosen
    PROVE  Chosen[s] \in DOMAIN registry /\ Chosen[s] \in Replica
<1> DEFINE R == {r \in Discover : ShardOf[r] = s}
<1>1. R \subseteq DOMAIN registry /\ DOMAIN registry \subseteq Replica /\ R # {}
  BY DEF Chosen, Discover, ServingInv, ServingTyped, RegistryTyped
<1>2. R \in SUBSET Nat
  BY <1>1, ServingAssumption
<1>3. \E r \in R : \A q \in R : r <= q
  BY <1>1, <1>2, NatLeast
<1>4. Chosen[s] = CHOOSE r \in R : \A q \in R : r <= q
  BY DEF Chosen, Min
<1>5. Chosen[s] \in R
  BY <1>3, <1>4
<1> QED
  BY <1>1, <1>5

\* Where the replicas, the registry and the cache are still, so is what is
\* invariant of them.
LEMMA ConsoleOnly ==
    ASSUME SearchInv, UNCHANGED <<servingVars, cache>>
    PROVE  ServingInv' /\ CacheOk'
<1>1. ServingInv'
  BY ServingNextInv DEF SearchInv
<1>2. CacheOk'
  BY DEF SearchInv, CacheOk, CachedIsComplete, Shard, InOrder, Placed
<1> QED
  BY <1>1, <1>2

LEMMA SnapshotKeeps == \A a \in Api : SearchInv /\ Snapshot(a) => SearchInv'
<1> SUFFICES ASSUME NEW a \in Api, SearchInv, Snapshot(a) PROVE SearchInv'
  OBVIOUS
<1> DEFINE new == [Idle EXCEPT !.step    = IF Cacheable(a) THEN "lookup" ELSE "ask",
                               !.targets = [s \in Coherent(a) |-> Target(s)],
                               !.keyed   = Cacheable(a)]
<1>1. search' = [search EXCEPT ![a] = new] /\ UNCHANGED <<servingVars, version, cache>>
  BY DEF Snapshot
<1>2. version[a] \in Nat /\ version[a] # Unversioned /\ version' = [version EXCEPT ![a] = version[a]]
  BY <1>1 DEF SearchInv, VersionsOk
<1>3. /\ DOMAIN new = {"step", "targets", "parts", "keyed"}
      /\ new.targets = [s \in Coherent(a) |-> Target(s)] /\ new.keyed = Cacheable(a)
      /\ new.step # "store" /\ DOMAIN new.parts = {}
  BY DEF Idle
<1>4. ASSUME NEW s \in Coherent(a) PROVE TargetOk(Target(s), version[a], Cacheable(a))
  <2>1. /\ s \in DOMAIN Chosen /\ Chosen[s] \in DOMAIN registry /\ Chosen[s] \in Replica
        /\ Announced(s) \in {version[a], Unversioned}
    BY <1>4, ChosenIsRegistered DEF Coherent, SearchInv
  <2>2. /\ Target(s).replica = Chosen[s] /\ Target(s).version = Announced(s)
        /\ Target(s).start = registry[Chosen[s]].start
        /\ Announced(s) = registry[Chosen[s]].version
    BY DEF Target, Announced
  <2>3. /\ registry[Chosen[s]].start \in Nat
        /\ EntryOk(registry[Chosen[s]], replica[Chosen[s]])
    BY <2>1 DEF SearchInv, ServingInv, EntryInv, ServingTyped, RegistryTyped, Row
  <2>4. Cacheable(a) => Announced(s) = version[a]
    BY <2>1 DEF Cacheable
  <2> QED
    BY <2>1, <2>2, <2>3, <2>4 DEF TargetOk, StartOk, EntryOk
<1>5. \A s \in DOMAIN new.targets : TargetOk(new.targets[s], version[a], new.keyed)
  BY <1>3, <1>4
<1> HIDE DEF new
<1>6. VersionsOk' /\ SearchesOk'
  <2>1. PICK it : it = new
    OBVIOUS
  <2>2. ASSUME search'[a] = it PROVE SearchOk(a)'
    BY <1>1, <1>3, <1>5, <2>1, <2>2, BecomesOk DEF servingVars
  <2> QED
    BY <1>1, <1>2, <2>1, <2>2, OthersStay
<1> QED
  BY <1>1, <1>6, ConsoleOnly DEF SearchInv

\* The targets and the parts that a search has are true of it.
LEMMA HeldIsOk ==
    ASSUME SearchInv, NEW a \in Api
    PROVE  /\ DOMAIN search[a] = {"step", "targets", "parts", "keyed"}
           /\ version[a] \in Nat /\ version[a] # Unversioned
           /\ version = [version EXCEPT ![a] = version[a]]
           /\ \A s \in DOMAIN search[a].targets :
                 TargetOk(search[a].targets[s], version[a], search[a].keyed)
           /\ \A s \in DOMAIN search[a].parts :
                 PartOk(search[a].parts[s], search[a].keyed)
           /\ search[a].step = "store" => search[a].keyed /\ DOMAIN search[a].parts = Shard
BY DEF SearchInv, SearchesOk, SearchOk, VersionsOk

\* An idle search has nothing that could be wrong.
LEMMA IdleIsOk ==
    ASSUME NEW a \in Api, search'[a] = Idle
    PROVE  SearchOk(a)'
BY DEF SearchOk, Idle

\* What is answered to a true target is a part of the version.
LEMMA AskKeeps == \A a \in Api, s \in Shard : SearchInv /\ Ask(a, s) => SearchInv'
<1> SUFFICES ASSUME NEW a \in Api, NEW s \in Shard, SearchInv, Ask(a, s) PROVE SearchInv'
  OBVIOUS
<1> DEFINE t    == search[a].targets[s]
           now  == replica[t.replica]
           exact == now.has = {version[a]}
           seen == now.start = t.start /\ now.undisturbed
           part == [exact |-> exact, excused |-> ~exact /\ ~seen,
                    unverified |-> t.version = Unversioned]
           rest == Restrict(search[a].targets, DOMAIN search[a].targets \ {s})
           more == Placing(search[a].parts, s, part)
<1>1. /\ s \in DOMAIN search[a].targets /\ search[a].step = "ask"
      /\ \/ /\ Answers(t.replica)
            /\ search' = [search EXCEPT ![a].targets = rest, ![a].parts = more]
         \/ search' = [search EXCEPT ![a].targets = rest]
      /\ UNCHANGED <<servingVars, version, cache>>
  BY DEF Ask
<1>2. Answers(t.replica) => PartOk(part, search[a].keyed)
  <2> SUFFICES ASSUME Answers(t.replica), search[a].keyed, seen
               PROVE  exact /\ t.version # Unversioned
    <3>1. ~(t.version = Unversioned) /\ (exact \/ ~seen) => PartOk(part, search[a].keyed)
      BY DEF PartOk
    <3>2. search[a].keyed => t.version # Unversioned
      BY <1>1, HeldIsOk DEF TargetOk
    <3> QED
      BY <3>1, <3>2 DEF PartOk
  <2>1. /\ t.replica \in Replica /\ StartOk(t, now)
        /\ t.version = version[a] /\ version[a] # Unversioned
    BY <1>1, HeldIsOk DEF TargetOk
  <2>2. now.step = "up"
    BY <2>1 DEF Answers, StartOk, Starting
  <2>3. now.version = version[a]
    BY <2>1, <2>2 DEF StartOk, Serving
  <2>4. LoadOk(now)
    BY <2>1 DEF SearchInv, ServingInv, LoadInv
  <2> QED
    BY <2>1, <2>2, <2>3, <2>4 DEF LoadOk
<1>3. /\ DOMAIN rest = DOMAIN search[a].targets \ {s}
      /\ \A q \in DOMAIN rest : rest[q] = search[a].targets[q]
  BY DEF Restrict
<1> HIDE DEF t, now, exact, seen, part, rest
<1>4. /\ DOMAIN more = DOMAIN search[a].parts \cup {s}
      /\ \A q \in DOMAIN more :
            \/ more[q] = part
            \/ q \in DOMAIN search[a].parts /\ more[q] = search[a].parts[q]
  BY DEF Placing
<1> HIDE DEF more
<1>5. PICK new : /\ search' = [search EXCEPT ![a] = new]
                 /\ DOMAIN new = {"step", "targets", "parts", "keyed"}
                 /\ new.step = "ask" /\ new.keyed = search[a].keyed
                 /\ new.targets = rest
                 /\ \/ new.parts = search[a].parts
                    \/ new.parts = more /\ Answers(t.replica)
  <2>1. CASE /\ Answers(t.replica)
             /\ search' = [search EXCEPT ![a].targets = rest, ![a].parts = more]
    <3> DEFINE new == [search[a] EXCEPT !.targets = rest, !.parts = more]
    <3>1. search' = [search EXCEPT ![a] = new]
      BY <2>1
    <3>2. /\ DOMAIN new = {"step", "targets", "parts", "keyed"}
          /\ new.step = "ask" /\ new.keyed = search[a].keyed
          /\ new.targets = rest /\ new.parts = more
      BY <1>1, HeldIsOk
    <3> QED
      BY <2>1, <3>1, <3>2
  <2>2. CASE search' = [search EXCEPT ![a].targets = rest]
    <3> DEFINE new == [search[a] EXCEPT !.targets = rest]
    <3>1. search' = [search EXCEPT ![a] = new]
      BY <2>2
    <3>2. /\ DOMAIN new = {"step", "targets", "parts", "keyed"}
          /\ new.step = "ask" /\ new.keyed = search[a].keyed
          /\ new.targets = rest /\ new.parts = search[a].parts
      BY <1>1, HeldIsOk
    <3> QED
      BY <3>1, <3>2
  <2> QED
    BY <1>1, <2>1, <2>2
<1>6. \A q \in DOMAIN new.targets : TargetOk(new.targets[q], version[a], new.keyed)
  BY <1>3, <1>5, HeldIsOk
<1>7. \A q \in DOMAIN new.parts : PartOk(new.parts[q], new.keyed)
  BY <1>2, <1>4, <1>5, HeldIsOk
<1>8. ASSUME search'[a] = new PROVE SearchOk(a)'
  BY <1>1, <1>5, <1>6, <1>7, <1>8, BecomesOk DEF servingVars
<1>9. VersionsOk' /\ SearchesOk'
  <2>1. version' = [version EXCEPT ![a] = version[a]]
    BY <1>1, HeldIsOk
  <2> QED
    BY <1>1, <1>5, <1>8, <2>1, HeldIsOk, OthersStay
<1> QED
  BY <1>1, <1>9, ConsoleOnly DEF SearchInv

\* An answer that is to be stored has a part of every shard.
LEMMA FinishKeeps == \A a \in Api : SearchInv /\ Finish(a) => SearchInv'
<1> SUFFICES ASSUME NEW a \in Api, SearchInv, Finish(a) PROVE SearchInv'
  OBVIOUS
<1>1. UNCHANGED <<servingVars, version, cache>>
  BY DEF Finish
<1>2. CASE search' = [search EXCEPT ![a] = Idle]
  BY <1>1, <1>2, HeldIsOk, IdleIsOk, OthersStay, ConsoleOnly DEF SearchInv
<1>3. ASSUME search[a].keyed, ~Degraded(a),
             search' = [search EXCEPT ![a].step = "store"]
      PROVE  SearchInv'
  <2> DEFINE new == [search[a] EXCEPT !.step = "store"]
  <2>1. search' = [search EXCEPT ![a] = new]
    BY <1>3
  <2>2. /\ DOMAIN new = {"step", "targets", "parts", "keyed"}
        /\ new.keyed = search[a].keyed /\ new.keyed /\ DOMAIN new.parts = Shard
        /\ new.targets = search[a].targets /\ new.parts = search[a].parts
    BY <1>3, HeldIsOk DEF Degraded
  <2> HIDE DEF new
  <2>3. ASSUME search'[a] = new PROVE SearchOk(a)'
    <3>1. /\ \A q \in DOMAIN new.targets : TargetOk(new.targets[q], version[a], new.keyed)
          /\ \A q \in DOMAIN new.parts : PartOk(new.parts[q], new.keyed)
      BY <2>2, HeldIsOk
    <3> QED
      BY <1>1, <2>2, <2>3, <3>1
         DEF SearchOk, TargetOk, StartOk, PartOk, servingVars, Unversioned, Shard
  <2>4. VersionsOk' /\ SearchesOk'
    BY <1>1, <2>1, <2>3, HeldIsOk, OthersStay
  <2> QED
    BY <1>1, <2>4, ConsoleOnly DEF SearchInv
<1> QED
  BY <1>2, <1>3 DEF Finish

\* Fewer entries, or older ones, are as complete as before.
LEMMA CacheShrinks ==
    ASSUME SearchInv, UNCHANGED servingVars,
           InOrder(cache', DOMAIN cache'), Placed(cache'),
           DOMAIN cache' \subseteq DOMAIN cache,
           \A v \in DOMAIN cache' : cache'[v].value = cache[v].value
    PROVE  CacheOk'
<1>1. IsFiniteSet(DOMAIN cache) /\ CachedIsComplete
  BY DEF SearchInv, CacheOk, InOrder
<1>2. /\ Cardinality(DOMAIN cache') <= Cardinality(DOMAIN cache)
      /\ Cardinality(DOMAIN cache') \in Nat /\ Cardinality(DOMAIN cache) \in Nat
  BY <1>1, FS_Subset, FS_CardinalityType
<1>3. Cardinality(DOMAIN cache') <= MaxEntries
  BY <1>1, <1>2, ConsoleAssumption DEF CachedIsComplete
<1>4. CachedIsComplete'
  BY <1>1, <1>3 DEF CachedIsComplete, Shard
<1>5. InOrder(cache, DOMAIN cache)' /\ Placed(cache)'
  BY DEF InOrder, Placed
<1> QED
  BY <1>4, <1>5 DEF CacheOk

LEMMA GetShrinks ==
    ASSUME NEW c, InOrder(c, DOMAIN c), Placed(c), NEW key
    PROVE  /\ DOMAIN AfterGet(c, key) \subseteq DOMAIN c
           /\ \A k \in DOMAIN AfterGet(c, key) : AfterGet(c, key)[k].value = c[k].value
           /\ InOrder(AfterGet(c, key), DOMAIN AfterGet(c, key))
           /\ Placed(AfterGet(c, key))
<1>1. CASE key \in Live(c)
  <2> DEFINE n == Cardinality(DOMAIN c)
             d == [c EXCEPT ![key].place = n]
  <2>1. n \in Nat
    BY FS_CardinalityType DEF InOrder
  <2>2. /\ DOMAIN d = DOMAIN c /\ \A k \in DOMAIN c : d[k].value = c[k].value
        /\ \A k \in DOMAIN c : DOMAIN d[k] = {"value", "left", "place"}
        /\ d[key].place = n
        /\ \A k \in DOMAIN c \ {key} : d[k].place = c[k].place
    BY <1>1 DEF Live, InOrder
  <2> HIDE DEF n, d
  <2>3. InOrder(d, DOMAIN d)
    BY <2>1, <2>2 DEF InOrder, Placed, n
  <2>4. AfterGet(c, key) = Keep(d, DOMAIN d)
    BY <1>1, <2>2 DEF AfterGet, d, n
  <2> QED
    BY <2>2, <2>3, <2>4, KeepIsInOrder
<1>2. CASE key \notin Live(c)
  <2> DEFINE keys == DOMAIN c \ {key}
  <2>1. IsFiniteSet(keys)
    BY FS_Subset DEF InOrder
  <2>2. InOrder(c, keys) /\ keys \subseteq DOMAIN c
    BY <2>1 DEF InOrder
  <2>3. AfterGet(c, key) = Keep(c, keys)
    BY <1>2 DEF AfterGet
  <2> HIDE DEF keys
  <2>4. /\ DOMAIN Keep(c, keys) = keys
        /\ \A k \in keys : Keep(c, keys)[k].value = c[k].value
        /\ InOrder(Keep(c, keys), keys) /\ Placed(Keep(c, keys))
    BY <2>2, KeepIsInOrder
  <2> QED
    BY <2>2, <2>3, <2>4
<1> QED
  BY <1>1, <1>2

LEMMA LookUpKeeps == \A a \in Api : SearchInv /\ LookUp(a) => SearchInv'
<1> SUFFICES ASSUME NEW a \in Api, SearchInv, LookUp(a) PROVE SearchInv'
  OBVIOUS
<1>1. UNCHANGED <<servingVars, version>> /\ cache' = AfterGet(cache, version[a])
  BY DEF LookUp
<1>2. CacheOk'
  BY <1>1, GetShrinks, CacheShrinks DEF SearchInv, CacheOk
<1>3. ServingInv'
  BY <1>1, ServingNextInv DEF SearchInv
<1>4. CASE search' = [search EXCEPT ![a] = Idle]
  BY <1>1, <1>2, <1>3, <1>4, HeldIsOk, IdleIsOk, OthersStay DEF SearchInv
<1>5. CASE search' = [search EXCEPT ![a].step = "ask"]
  <2> DEFINE new == [search[a] EXCEPT !.step = "ask"]
  <2>1. search' = [search EXCEPT ![a] = new]
    BY <1>5
  <2>2. /\ DOMAIN new = {"step", "targets", "parts", "keyed"}
        /\ new.step = "ask" /\ new.keyed = search[a].keyed
        /\ new.targets = search[a].targets /\ new.parts = search[a].parts
    BY HeldIsOk
  <2> HIDE DEF new
  <2>3. ASSUME search'[a] = new PROVE SearchOk(a)'
    <3>1. /\ \A q \in DOMAIN new.targets : TargetOk(new.targets[q], version[a], new.keyed)
          /\ \A q \in DOMAIN new.parts : PartOk(new.parts[q], new.keyed)
      BY <2>2, HeldIsOk
    <3> QED
      BY <1>1, <2>2, <2>3, <3>1
         DEF SearchOk, TargetOk, StartOk, PartOk, servingVars, Unversioned
  <2>4. VersionsOk' /\ SearchesOk'
    BY <1>1, <2>1, <2>3, HeldIsOk, OthersStay
  <2> QED
    BY <1>2, <1>3, <2>4 DEF SearchInv
<1> QED
  BY <1>4, <1>5 DEF LookUp

\* What is stored is verified.
LEMMA StoreKeeps == \A a \in Api : SearchInv /\ Store(a) => SearchInv'
<1> SUFFICES ASSUME NEW a \in Api, SearchInv, Store(a) PROVE SearchInv'
  OBVIOUS
<1>1. /\ UNCHANGED <<servingVars, version>> /\ search' = [search EXCEPT ![a] = Idle]
      /\ search[a].step = "store"
  BY DEF Store
<1>2. VersionsOk' /\ SearchesOk' /\ ServingInv'
  BY <1>1, HeldIsOk, IdleIsOk, OthersStay, ServingNextInv DEF SearchInv
<1>3. CASE UNCHANGED cache
  BY <1>1, <1>2, <1>3, ConsoleOnly DEF SearchInv
<1>4. CASE cache' = AfterSet(cache, version[a], search[a].parts, CacheTtl, MaxEntries)
  <2> DEFINE key   == version[a]
             value == search[a].parts
             n     == Cardinality(DOMAIN cache)
             more  == [k \in DOMAIN cache \cup {key} |->
                          IF k = key THEN [value |-> value, left |-> CacheTtl, place |-> n]
                                     ELSE cache[k]]
  <2>1. InOrder(cache, DOMAIN cache) /\ Placed(cache) /\ CachedIsComplete
    BY DEF SearchInv, CacheOk
  <2>2. n \in Nat /\ IsFiniteSet(DOMAIN cache \cup {key})
    BY <2>1, FS_CardinalityType, FS_AddElement DEF InOrder
  <2>3. /\ DOMAIN more = DOMAIN cache \cup {key}
        /\ more[key] = [value |-> value, left |-> CacheTtl, place |-> n]
        /\ \A k \in DOMAIN cache \ {key} : more[k] = cache[k]
    OBVIOUS
  <2> HIDE DEF n, more
  <2>4. InOrder(more, DOMAIN more)
    BY <2>1, <2>2, <2>3 DEF InOrder, Placed, n
  <2>5. cache' = Evict(more, MaxEntries)
    BY <1>4 DEF AfterSet, more, n
  <2>6. MaxEntries \in Nat /\ MaxEntries > 0
    BY ConsoleAssumption
  <2>7. /\ DOMAIN cache' \subseteq DOMAIN more
        /\ Cardinality(DOMAIN cache') <= MaxEntries
        /\ \A k \in DOMAIN cache' : cache'[k].value = more[k].value
        /\ InOrder(cache', DOMAIN cache') /\ Placed(cache')
    BY <2>4, <2>5, <2>6, EvictBounds
  <2>8. ASSUME NEW v \in DOMAIN cache'
        PROVE  /\ DOMAIN cache'[v].value = Shard
               /\ \A s \in Shard : LET part == cache'[v].value[s]
                                   IN  /\ ~part.unverified
                                       /\ part.exact \/ part.excused
    <3>1. CASE v = key
      <4>1. cache'[v].value = search[a].parts
        BY <2>3, <2>7, <3>1
      <4>2. search[a].keyed /\ DOMAIN search[a].parts = Shard
        BY <1>1, HeldIsOk
      <4>3. \A s \in Shard : PartOk(search[a].parts[s], search[a].keyed)
        BY <4>2, HeldIsOk
      <4> QED
        BY <3>1, <4>1, <4>2, <4>3 DEF PartOk
    <3>2. CASE v # key
      <4>1. v \in DOMAIN cache /\ cache'[v].value = cache[v].value
        BY <2>3, <2>7, <3>2
      <4> QED
        BY <2>1, <4>1 DEF CachedIsComplete
    <3> QED
      BY <3>1, <3>2
  <2>9. CachedIsComplete'
    BY <2>7, <2>8 DEF CachedIsComplete, Shard
  <2>10. InOrder(cache, DOMAIN cache)' /\ Placed(cache)'
    BY <2>7 DEF InOrder, Placed
  <2> QED
    BY <1>2, <2>9, <2>10 DEF SearchInv, CacheOk
<1> QED
  BY <1>3, <1>4 DEF Store

LEMMA OlderShrinks ==
    ASSUME NEW c, InOrder(c, DOMAIN c), Placed(c)
    PROVE  /\ DOMAIN Older(c) = DOMAIN c
           /\ \A k \in DOMAIN c : Older(c)[k].value = c[k].value
           /\ InOrder(Older(c), DOMAIN Older(c)) /\ Placed(Older(c))
<1>1. /\ DOMAIN Older(c) = DOMAIN c
      /\ \A k \in DOMAIN c : /\ Older(c)[k].value = c[k].value
                             /\ Older(c)[k].place = c[k].place
                             /\ DOMAIN Older(c)[k] = DOMAIN c[k]
  BY DEF Older, InOrder
<1> QED
  BY <1>1 DEF InOrder, Placed

LEMMA SearchesStay ==
    ASSUME SearchInv, [ServingNext]_servingVars, UNCHANGED <<version, search>>
    PROVE  ServingInv' /\ VersionsOk' /\ SearchesOk'
<1>1. ServingInv'
  BY ServingNextInv DEF SearchInv
<1>2. /\ built' >= built
      /\ \A r \in Replica : MovesTo(replica[r], replica'[r])
  BY ServingMoves DEF SearchInv
<1>3. VersionsOk'
  <2>1. built \in Nat /\ built' \in Nat
    BY <1>1 DEF SearchInv, ServingInv, ServingTyped, BuildsTyped
  <2> QED
    BY <1>2, <2>1 DEF SearchInv, VersionsOk, Unversioned
<1>4. SearchesOk'
  BY <1>2, SearchStays DEF SearchInv, SearchesOk
<1> QED
  BY <1>1, <1>3, <1>4

LEMMA TickKeeps == SearchInv /\ Tick => SearchInv'
<1> SUFFICES ASSUME SearchInv, Tick PROVE SearchInv'
  OBVIOUS
<1>1. /\ RegistryTick /\ cache' = Older(cache)
      /\ UNCHANGED <<version, search, built, published, replica>>
  BY DEF Tick, RegistryTick
<1>2. ServingInv' /\ VersionsOk' /\ SearchesOk'
  BY <1>1, SearchesStay DEF ServingNext
<1>3. CacheOk'
  <2>1. InOrder(cache, DOMAIN cache) /\ Placed(cache) /\ CachedIsComplete
    BY DEF SearchInv, CacheOk
  <2>2. /\ DOMAIN cache' = DOMAIN cache
        /\ \A k \in DOMAIN cache : cache'[k].value = cache[k].value
        /\ InOrder(cache', DOMAIN cache') /\ Placed(cache')
    BY <1>1, <2>1, OlderShrinks
  <2>3. CachedIsComplete'
    BY <2>1, <2>2 DEF CachedIsComplete, Shard
  <2>4. InOrder(cache, DOMAIN cache)' /\ Placed(cache)'
    BY <2>2 DEF InOrder, Placed
  <2> QED
    BY <2>3, <2>4 DEF CacheOk
<1> QED
  BY <1>2, <1>3 DEF SearchInv

LEMMA RestartKeeps == \A a \in Api : SearchInv /\ RestartApi(a) => SearchInv'
<1> SUFFICES ASSUME NEW a \in Api, SearchInv, RestartApi(a) PROVE SearchInv'
  OBVIOUS
<1>1. built \in Nat /\ built # Unversioned
  BY DEF SearchInv, VersionsOk, ServingInv, ServingTyped, BuildsTyped, Unversioned
<1> QED
  BY <1>1, IdleIsOk, OthersStay, ConsoleOnly DEF RestartApi, SearchInv

LEMMA SearchInitInv == Init => SearchInv
<1> SUFFICES ASSUME Init PROVE SearchInv
  OBVIOUS
<1>1. ServingInv
  BY ServingInitInv DEF Init
<1>2. VersionsOk
  BY ServingAssumption DEF Init, ServingInit, VersionsOk, Unversioned
<1>3. SearchesOk
  <2>1. \A a \in Api : search[a] = Idle
    BY DEF Init
  <2>2. \A a \in Api : SearchOk(a)
    BY <2>1 DEF SearchOk, Idle
  <2> QED
    BY <2>2 DEF Init, SearchesOk
<1>4. CacheOk
  <2>1. DOMAIN cache = {}
    BY DEF Init
  <2>2. IsFiniteSet({}) /\ Cardinality({}) = 0
    BY FS_EmptySet
  <2> QED
    BY <2>1, <2>2, ConsoleAssumption DEF CacheOk, InOrder, Placed, CachedIsComplete
<1> QED
  BY <1>1, <1>2, <1>3, <1>4 DEF SearchInv

LEMMA SearchNextInv == SearchInv /\ [Next]_vars => SearchInv'
<1> SUFFICES ASSUME SearchInv, [Next]_vars PROVE SearchInv'
  OBVIOUS
<1>1. CASE (ServingStep \/ UNCHANGED servingVars) /\ UNCHANGED <<version, search, cache>>
  <2>1. ServingInv' /\ VersionsOk' /\ SearchesOk'
    BY <1>1, SearchesStay DEF ServingNext
  <2>2. CacheOk'
    BY <1>1 DEF SearchInv, CacheOk, CachedIsComplete, Shard, InOrder, Placed
  <2> QED
    BY <2>1, <2>2 DEF SearchInv
<1>2. CASE Tick
  BY <1>2, TickKeeps
<1>3. ASSUME NEW a \in Api, RestartApi(a) \/ SearchStep(a) PROVE SearchInv'
  BY <1>3, RestartKeeps, SnapshotKeeps, LookUpKeeps, AskKeeps, FinishKeeps, StoreKeeps
     DEF SearchStep
<1> QED
  BY <1>1, <1>2, <1>3 DEF Next, vars

\* What a console caches is bounded and complete: of every shard a part that was
\* announced with the version of the key, and is of it if the process that
\* answered is the one the snapshot saw and its load was not disturbed; for any
\* limit and time to live (console/routes/search.py, cache/memory.py).
THEOREM CacheIsComplete == Spec => []CachedIsComplete
<1>1. SearchInv => CachedIsComplete
  BY DEF SearchInv, CacheOk
<1> QED
  BY <1>1, SearchInitInv, SearchNextInv, PTL DEF Spec
=============================================================================
