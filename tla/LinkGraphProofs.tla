--------------------------- MODULE LinkGraphProofs ---------------------------
(***************************************************************************)
(* What holds of a storage in a local directory, for any number of         *)
(* clients, any keys and any bodies, wherever its calls interleave and     *)
(* fail: it keeps the promise of SafeStorage.  And what holds of the link  *)
(* graph that any number of workers read from it: it is complete.          *)
(*                                                                         *)
(* StorageInv says what is in the files of a call that no write overlaps:  *)
(* an overlap is what makes a call lose what it may rely on, in the        *)
(* history of SafeStorage, so that every step maps to one of its steps.    *)
(* GraphInv follows a key from the listing to its line or its count.       *)
(***************************************************************************)
EXTENDS LinkGraph, SequenceTheorems, FiniteSetTheorems, WellFoundedInduction, TLAPS

Writing == {"put", "body", "meta", "delete", "unlink", "deleted"}
Getting == {"get", "read"}
Listing == {"list", "stat", "sidecar", "restat"}
Open    == {"body", "meta", "read"}

\* A call is what its client is doing.
WriteCalls == [op: {"write"}, key: Key, new: Content \cup {Absent}, alone: BOOLEAN]
Expected   == [Key -> Object \cup {Absent, Unknown}]
GetCalls   == [op: {"get"}, key: Key, expect: Expected]
ListCalls  == [op: {"list"}, expect: Expected]

CallOk(c) ==
    \/ work[c].at = "idle" /\ call[c] = Promise!NoCall
    \/ /\ work[c].at \in Writing /\ call[c] \in WriteCalls
       /\ IF work[c].at \in {"put", "body", "meta"} THEN call[c].new \in Content
                                                 ELSE call[c].new = Absent
    \/ work[c].at \in Getting /\ call[c] \in GetCalls
    \/ work[c].at \in Listing /\ call[c] \in ListCalls

WorkOk(c) ==
    /\ work[c].at \in Open => work[c].file \in DOMAIN blocks /\ work[c].got \in Seq(Data)
    /\ work[c].at \in {"body", "meta"} => work[c].todo \in Seq(Data)
    /\ work[c].at = "meta" => Len(work[c].got) + Len(work[c].todo) = 1
    /\ work[c].at \in Listing \ {"list"} =>
          work[c].todo \subseteq Key /\ DOMAIN work[c].got \subseteq Key
    /\ work[c].at \in {"sidecar", "restat"} => work[c].todo # {}

TypedInv ==
    /\ DOMAIN work = Client /\ DOMAIN call = Client
    /\ \A c \in Client : CallOk(c) /\ WorkOk(c)

\* No file has two names, and a sidecar has one block at most.
DiskInv ==
    /\ \A p \in DOMAIN names : names[p] \in DOMAIN blocks
    /\ \A p, q \in DOMAIN names : names[p] = names[q] => p = q
    /\ DOMAIN blocks \subseteq File
    /\ \A f \in DOMAIN blocks : blocks[f] \in Seq(Data)
    /\ \A k \in Key : Named(Meta(k)) => Len(Contents(Meta(k))) <= 1

\* What a client has open is named by its own key, or by nothing any more.
Home(c) == IF work[c].at = "meta" THEN Meta(KeyOf(c)) ELSE Body(KeyOf(c))

OpenOk(c) ==
    work[c].at \in Open =>
        \A p \in DOMAIN names : names[p] = work[c].file => p = Home(c)

OpenInv == \A c \in Client : OpenOk(c)

-----------------------------------------------------------------------------
\* A sequence is one part and then the other.
Splits(s, a, b) ==
    /\ Len(a) + Len(b) = Len(s)
    /\ \A i \in 1 .. Len(a) : a[i] = s[i]
    /\ \A i \in 1 .. Len(b) : b[i] = s[Len(a) + i]

\* How far a write has come that no other overlaps.
Progress(c) ==
    /\ work[c].at \in {"body", "meta"} =>
          /\ Named(Home(c)) /\ names[Home(c)] = work[c].file
          /\ blocks[work[c].file] = work[c].got
    /\ work[c].at = "body" => Splits(call[c].new.body, work[c].got, work[c].todo)
    /\ work[c].at = "meta" =>
          /\ Named(Body(KeyOf(c))) /\ Contents(Body(KeyOf(c))) = call[c].new.body
          /\ Splits(<<call[c].new.type>>, work[c].got, work[c].todo)
    /\ work[c].at \in {"unlink", "deleted"} => ~Named(Body(KeyOf(c)))

AloneOk(c) ==
    work[c].at \in Writing /\ call[c].alone =>
        /\ Progress(c)
        /\ \A d \in Client : Promise!Writes(d, KeyOf(c)) => d = c

AloneInv == \A c \in Client : AloneOk(c)

\* What a read relies on is there, and nobody is writing it.
ExpectOk(c) ==
    work[c].at \in Getting \cup Listing =>
        \A k \in Key : call[c].expect[k] # Unknown =>
            ~Promise!Written(k) /\ call[c].expect[k] = Stored(k)

ExpectInv == \A c \in Client : ExpectOk(c)

\* How far a get has come that no write overlapped.
GetOk(c) ==
    work[c].at = "read" /\ call[c].expect[KeyOf(c)] # Unknown =>
        /\ Named(Home(c)) /\ names[Home(c)] = work[c].file
        /\ Len(work[c].got) <= Len(blocks[work[c].file])
        /\ \A i \in 1 .. Len(work[c].got) : work[c].got[i] = blocks[work[c].file][i]

GetInv == \A c \in Client : GetOk(c)

\* How far a listing has come: of a key that no write overlapped the entry is
\* right, or still to come.
Entry(x) == [size |-> Len(x.body), type |-> x.type]

ListedOk(c, k) ==
    LET x == call[c].expect[k]
    IN  IF x = Absent THEN k \notin work[c].todo /\ k \notin DOMAIN work[c].got
        ELSE /\ k \in work[c].todo \/ (k \in DOMAIN work[c].got /\ work[c].got[k] = Entry(x))
             /\ work[c].at \in {"sidecar", "restat"} /\ k = KeyAtHand(c) =>
                   /\ k \in DOMAIN work[c].got
                   /\ work[c].got[k] = [size |-> Len(x.body), type |-> Default]
                   /\ work[c].at = "restat" => x.type = Default

ListOk(c) ==
    work[c].at \in Listing \ {"list"} =>
        \A k \in Key : call[c].expect[k] # Unknown => ListedOk(c, k)

ListInv == \A c \in Client : ListOk(c)

StorageInv ==
    /\ TypedInv /\ DiskInv /\ OpenInv
    /\ AloneInv /\ ExpectInv /\ GetInv /\ ListInv

-----------------------------------------------------------------------------
(***************************************************************************)
(* The operations of the file system, and what they leave alone.           *)
(***************************************************************************)
Same(p) ==
    /\ p \in DOMAIN names' <=> p \in DOMAIN names
    /\ p \in DOMAIN names =>
          names'[p] = names[p] /\ blocks'[names[p]] = blocks[names[p]]

LEMMA GoesTo ==
    ASSUME TypedInv, NEW c \in Client, NEW step, NEW file, NEW todo, NEW got,
           Goes(c, step, file, todo, got)
    PROVE  /\ DOMAIN work' = Client
           /\ \A d \in Client \ {c} : work'[d] = work[d]
           /\ work'[c].at = step /\ work'[c].file = file
           /\ work'[c].todo = todo /\ work'[c].got = got
BY DEF Goes, TypedInv

LEMMA EndsAt ==
    ASSUME TypedInv, NEW c \in Client, End(c)
    PROVE  /\ DOMAIN work' = Client
           /\ \A d \in Client \ {c} : work'[d] = work[d]
           /\ work'[c].at = "idle" /\ work'[c].file = NoFile
BY DEF End, Idle, TypedInv

\* What a file without a name and without a client takes with it.
LEMMA KeptKeeps ==
    ASSUME TypedInv, DiskInv, blocks' = Kept, DOMAIN work' = Client,
           DOMAIN names' \subseteq DOMAIN names,
           \A p \in DOMAIN names' : names'[p] = names[p]
    PROVE  /\ DOMAIN blocks' \subseteq DOMAIN blocks
           /\ \A f \in DOMAIN blocks' : blocks'[f] = blocks[f]
           /\ \A p \in DOMAIN names' : names'[p] \in DOMAIN blocks'
           /\ \A d \in Client : work'[d].file \in DOMAIN blocks =>
                 work'[d].file \in DOMAIN blocks'
<1> DEFINE kept == {f \in DOMAIN blocks :
                      f \in Range(names') \/ \E c \in Client : work'[c].file = f}
<1>1. blocks' = [f \in kept |-> blocks[f]]
  BY DEF Kept, Restrict
<1>2. \A p \in DOMAIN names' : names'[p] \in Range(names')
  BY DEF Range
<1>3. \A p \in DOMAIN names' : names'[p] \in DOMAIN blocks
  BY DEF DiskInv
<1>4. \A p \in DOMAIN names' : names'[p] \in kept
  BY <1>2, <1>3
<1>5. \A d \in Client : work'[d].file \in DOMAIN blocks => work'[d].file \in kept
  OBVIOUS
<1> HIDE DEF kept
<1>6. DOMAIN blocks' = kept /\ \A f \in kept : blocks'[f] = blocks[f]
  BY <1>1
<1>7. kept \subseteq DOMAIN blocks
  BY DEF kept
<1> QED
  BY <1>4, <1>5, <1>6, <1>7

\* A file that is made.
LEMMA NewFileIs ==
    ASSUME DiskInv, File # DOMAIN blocks
    PROVE  NewFile \in File \ DOMAIN blocks
<1>1. \E f \in File : f \notin DOMAIN blocks
  BY DEF DiskInv
<1> QED
  BY <1>1 DEF NewFile

\* Opening a file for writing.
LEMMA Opened ==
    ASSUME TypedInv, DiskInv, NEW c \in Client, NEW path, NEW step, NEW todo,
           OpenFile(c, path, step, todo)
    PROVE  /\ \A p : p # path => Same(p)
           /\ DOMAIN names' = DOMAIN names \cup {path}
           /\ names'[path] \in DOMAIN blocks' /\ blocks'[names'[path]] = <<>>
           /\ DOMAIN blocks \subseteq DOMAIN blocks' /\ DOMAIN blocks' \subseteq File
           /\ \A f \in DOMAIN blocks' : f # names'[path] =>
                 f \in DOMAIN blocks /\ blocks'[f] = blocks[f]
           /\ path \in DOMAIN names => names'[path] = names[path]
           /\ path \notin DOMAIN names => names'[path] \notin DOMAIN blocks
           /\ Goes(c, step, names'[path], todo, <<>>)
           /\ Silent /\ UNCHANGED call
<1>1. Goes(c, step, names'[path], todo, <<>>) /\ Silent /\ UNCHANGED call
  BY DEF OpenFile
<1>2. CASE path \in DOMAIN names
  <2>1. names' = names /\ blocks' = [blocks EXCEPT ![names[path]] = <<>>]
    BY <1>2 DEF OpenFile, Named
  <2>2. names[path] \in DOMAIN blocks /\ DOMAIN blocks \subseteq File
    BY <1>2 DEF DiskInv
  <2>3. \A p : p # path => Same(p)
    BY <1>2, <2>1, <2>2 DEF Same, DiskInv
  <2> QED
    BY <1>1, <1>2, <2>1, <2>2, <2>3
<1>3. CASE path \notin DOMAIN names
  <2>1. /\ File # DOMAIN blocks
        /\ names' = With(names, path, NewFile)
        /\ blocks' = With(blocks, NewFile, <<>>)
    BY <1>3 DEF OpenFile, Named
  <2>2. PICK file \in File \ DOMAIN blocks : file = NewFile
    BY <2>1, NewFileIs
  <2>3. /\ DOMAIN names' = DOMAIN names \cup {path} /\ names'[path] = file
        /\ \A p \in DOMAIN names : names'[p] = names[p]
    BY <1>3, <2>1, <2>2 DEF With
  <2>4. /\ DOMAIN blocks' = DOMAIN blocks \cup {file} /\ blocks'[file] = <<>>
        /\ \A f \in DOMAIN blocks : blocks'[f] = blocks[f]
    BY <2>1, <2>2 DEF With
  <2>5. DOMAIN blocks \subseteq File /\ \A p \in DOMAIN names : names[p] \in DOMAIN blocks
    BY DEF DiskInv
  <2>6. \A p : p # path => Same(p)
    BY <2>3, <2>4, <2>5 DEF Same
  <2> QED
    BY <1>1, <1>3, <2>2, <2>3, <2>4, <2>5, <2>6
<1> QED
  BY <1>2, <1>3

LEMMA WrittenIs ==
    ASSUME NEW file \in Seq(Data), NEW i \in Nat \ {0}, NEW block \in Data
    PROVE  /\ WrittenAt(file, i, block) \in Seq(Data)
           /\ Len(WrittenAt(file, i, block)) = IF Len(file) < i THEN i ELSE Len(file)
           /\ WrittenAt(file, i, block)[i] = block
           /\ \A j \in 1 .. Len(file) : j # i => WrittenAt(file, i, block)[j] = file[j]
<1> DEFINE n == IF Len(file) < i THEN i ELSE Len(file)
           at(j) == IF j = i THEN block ELSE IF j <= Len(file) THEN file[j] ELSE Hole
<1>1. Len(file) \in Nat /\ n \in Nat /\ i \in 1 .. n /\ 1 .. Len(file) \subseteq 1 .. n
  BY LenProperties
<1>2. \A j \in 1 .. n : at(j) \in Data
  BY ElementOfSeq DEF Data
<1>3. PICK new : new = WrittenAt(file, i, block)
  OBVIOUS
<1>4. new = [j \in 1 .. n |-> at(j)]
  BY <1>3 DEF WrittenAt
<1> HIDE DEF n
<1>5. new \in Seq(Data) /\ Len(new) = n
  BY <1>1, <1>2, <1>4
<1>6. /\ new[i] = block
      /\ \A j \in 1 .. Len(file) : j # i => new[j] = file[j]
  BY <1>1, <1>4
<1> QED
  BY <1>3, <1>5, <1>6 DEF n

\* A block is written to the file of the client's own key.
LEMMA Wrote ==
    ASSUME TypedInv, DiskInv, OpenInv, NEW c \in Client, WriteBlock(c)
    PROVE  LET file == work[c].file
               i    == Len(work[c].got) + 1
           IN  /\ names' = names /\ DOMAIN blocks' = DOMAIN blocks
               /\ file \in DOMAIN blocks
               /\ blocks[file] \in Seq(Data) /\ blocks'[file] \in Seq(Data)
               /\ work[c].got \in Seq(Data) /\ work[c].todo \in Seq(Data)
               /\ work[c].todo # <<>> /\ Head(work[c].todo) \in Data
               /\ blocks'[file] = WrittenAt(blocks[file], i, Head(work[c].todo))
               /\ \A f \in DOMAIN blocks : f # file => blocks'[f] = blocks[f]
               /\ \A p : p # Home(c) => Same(p)
               /\ work[c].at \in {"body", "meta"}
               /\ Goes(c, work[c].at, file, Tail(work[c].todo),
                       Append(work[c].got, Head(work[c].todo)))
               /\ Silent /\ UNCHANGED call
<1> DEFINE file == work[c].file
           i    == Len(work[c].got) + 1
           new  == WrittenAt(blocks[file], i, Head(work[c].todo))
<1>1. /\ work[c].at \in {"body", "meta"} /\ work[c].todo # <<>>
      /\ blocks' = [blocks EXCEPT ![file] = new]
      /\ Goes(c, work[c].at, file, Tail(work[c].todo),
              Append(work[c].got, Head(work[c].todo)))
      /\ Silent /\ UNCHANGED <<names, call>>
  BY DEF WriteBlock
<1>2. /\ file \in DOMAIN blocks /\ work[c].got \in Seq(Data) /\ work[c].todo \in Seq(Data)
      /\ blocks[file] \in Seq(Data)
  BY <1>1 DEF TypedInv, WorkOk, Open, DiskInv
<1>3. Head(work[c].todo) \in Data
  BY <1>1, <1>2, HeadTailProperties
<1>4. i \in Nat \ {0}
  BY <1>2, LenProperties
<1>5. new \in Seq(Data)
  BY <1>2, <1>3, <1>4, WrittenIs
<1> HIDE DEF new, i
<1>6. /\ DOMAIN blocks' = DOMAIN blocks /\ blocks'[file] = new
      /\ \A f \in DOMAIN blocks : f # file => blocks'[f] = blocks[f]
  BY <1>1, <1>2
<1>7. ASSUME NEW p, p # Home(c) PROVE Same(p)
  <2>1. p \in DOMAIN names => names[p] # file /\ names[p] \in DOMAIN blocks
    BY <1>1, <1>7 DEF OpenInv, OpenOk, Open, DiskInv
  <2> QED
    BY <1>1, <1>6, <2>1 DEF Same
<1> QED
  BY <1>1, <1>2, <1>3, <1>5, <1>6, <1>7 DEF new, i

\* Removing a name.
LEMMA Unlinked ==
    ASSUME TypedInv, DiskInv, NEW c \in Client, NEW step, NEW path, NEW next,
           Unlink(c, step, path, next)
    PROVE  /\ \A p : p # path => Same(p)
           /\ DOMAIN names' = DOMAIN names \ {path}
           /\ \A p \in DOMAIN names' : names'[p] = names[p] /\ names'[p] \in DOMAIN blocks'
           /\ DOMAIN blocks' \subseteq DOMAIN blocks
           /\ \A f \in DOMAIN blocks' : blocks'[f] = blocks[f]
           /\ \A d \in Client : work'[d].file \in DOMAIN blocks =>
                 work'[d].file \in DOMAIN blocks'
           /\ Goes(c, next, NoFile, <<>>, <<>>)
           /\ Silent /\ UNCHANGED call
<1>1. /\ Goes(c, next, NoFile, <<>>, <<>>) /\ Silent /\ UNCHANGED call
      /\ blocks' = Kept
      /\ DOMAIN names' = DOMAIN names \ {path}
      /\ \A p \in DOMAIN names' : names'[p] = names[p]
  BY DEF Unlink
<1>2. DOMAIN work' = Client
  BY <1>1, GoesTo
<1>3. /\ DOMAIN blocks' \subseteq DOMAIN blocks
      /\ \A f \in DOMAIN blocks' : blocks'[f] = blocks[f]
      /\ \A p \in DOMAIN names' : names'[p] \in DOMAIN blocks'
      /\ \A d \in Client : work'[d].file \in DOMAIN blocks =>
            work'[d].file \in DOMAIN blocks'
  BY <1>1, <1>2, KeptKeeps
<1>4. \A p : p # path => Same(p)
  BY <1>1, <1>3 DEF Same
<1> QED
  BY <1>1, <1>3, <1>4

\* Ending a call.
LEMMA Closed ==
    ASSUME TypedInv, DiskInv, NEW c \in Client, End(c)
    PROVE  /\ \A p : Same(p)
           /\ names' = names
           /\ \A p \in DOMAIN names' : names'[p] \in DOMAIN blocks'
           /\ DOMAIN blocks' \subseteq DOMAIN blocks
           /\ \A f \in DOMAIN blocks' : blocks'[f] = blocks[f]
           /\ \A d \in Client : work'[d].file \in DOMAIN blocks =>
                 work'[d].file \in DOMAIN blocks'
<1>1. names' = names /\ blocks' = Kept
  BY DEF End
<1>2. DOMAIN work' = Client
  BY EndsAt
<1>3. /\ DOMAIN blocks' \subseteq DOMAIN blocks
      /\ \A f \in DOMAIN blocks' : blocks'[f] = blocks[f]
      /\ \A p \in DOMAIN names' : names'[p] \in DOMAIN blocks'
      /\ \A d \in Client : work'[d].file \in DOMAIN blocks =>
            work'[d].file \in DOMAIN blocks'
  BY <1>1, <1>2, KeptKeeps
<1>4. \A p : Same(p)
  BY <1>1, <1>3 DEF Same
<1> QED
  BY <1>1, <1>3, <1>4

\* The operations that change the disk, and whose they are.
LEMMA DiskSteps ==
    ASSUME NEW c \in Client, ClientStep(c)
    PROVE  \/ UNCHANGED disk
           \/ OpenBody(c) \/ OpenMeta(c) \/ WriteBlock(c) \/ UnlinkBody(c) \/ UnlinkMeta(c)
           \/ End(c)
BY DEF ClientStep, BeginPut, BeginDelete, BeginGet, BeginList, ObjectExists, Begin,
       WriteStep, ReadStep, OpenForReading, NotFound, ReadBlock, EndOfFile, ListKeys,
       Stat, ReadSidecar, StatAgain, StatGone, EndList, EndWrite, Fail, Return, disk

\* A step of one client is none of another.
LEMMA OthersWork ==
    ASSUME TypedInv, NEW c \in Client, ClientStep(c)
    PROVE  DOMAIN work' = Client /\ \A d \in Client \ {c} : work'[d] = work[d]
<1>a. DOMAIN work = Client
  BY DEF TypedInv
<1>1. CASE \E k \in Key : \E x \in Content : BeginPut(c, k, x)
  BY <1>a, <1>1 DEF BeginPut, Begin, Goes
<1>2. CASE \E k \in Key : BeginDelete(c, k) \/ BeginGet(c, k) \/ ObjectExists(c, k)
  BY <1>a, <1>2 DEF BeginDelete, BeginGet, ObjectExists, Begin, Goes
<1>3. CASE BeginList(c) \/ OpenBody(c) \/ OpenMeta(c)
  BY <1>a, <1>3 DEF BeginList, OpenBody, OpenMeta, OpenFile, Begin, Goes
<1>4. CASE WriteBlock(c) \/ UnlinkBody(c) \/ UnlinkMeta(c)
  BY <1>a, <1>4 DEF WriteBlock, UnlinkBody, UnlinkMeta, Unlink, Goes
<1>5. CASE EndWrite(c) \/ NotFound(c) \/ EndOfFile(c) \/ StatGone(c) \/ EndList(c) \/ Fail(c)
  BY <1>5, EndsAt DEF EndWrite, NotFound, EndOfFile, StatGone, EndList, Fail, Return
<1>6. CASE OpenForReading(c) \/ ReadBlock(c) \/ ListKeys(c)
  BY <1>a, <1>6 DEF OpenForReading, ReadBlock, ListKeys, Goes
<1>7. CASE Stat(c) \/ ReadSidecar(c) \/ StatAgain(c)
  BY <1>a, <1>7 DEF Stat, ReadSidecar, StatAgain, Goes
<1> QED
  BY <1>1, <1>2, <1>3, <1>4, <1>5, <1>6, <1>7 DEF ClientStep, WriteStep, ReadStep

\* A step changes what the paths of its own key name, if it writes, and no
\* other path; and it takes no open file away.
LEMMA StepFrame ==
    ASSUME TypedInv, DiskInv, OpenInv, NEW c \in Client, ClientStep(c)
    PROVE  /\ \A p : \/ work[c].at \in Writing /\ p \in {Body(KeyOf(c)), Meta(KeyOf(c))}
                     \/ Same(p)
           /\ \A d \in Client \ {c} :
                 work[d].at \in Open => work[d].file \in DOMAIN blocks'
<1>a. \A d \in Client \ {c} : work'[d] = work[d]
  BY OthersWork
<1>b. \A d \in Client \ {c} : work[d].at \in Open => work[d].file \in DOMAIN blocks
  BY DEF TypedInv, WorkOk
<1>1. CASE UNCHANGED disk
  BY <1>1, <1>b DEF disk, Same
<1>c. ASSUME NEW path, NEW step, NEW todo, OpenFile(c, path, step, todo),
             work[c].at \in Writing, path \in {Body(KeyOf(c)), Meta(KeyOf(c))}
      PROVE  /\ \A p : \/ work[c].at \in Writing /\ p \in {Body(KeyOf(c)), Meta(KeyOf(c))}
                       \/ Same(p)
             /\ \A d \in Client \ {c} :
                   work[d].at \in Open => work[d].file \in DOMAIN blocks'
  <2>1. (\A p : p # path => Same(p)) /\ DOMAIN blocks \subseteq DOMAIN blocks'
    BY <1>c, Opened
  <2> QED
    BY <2>1, <1>b, <1>c
<1>2. CASE OpenBody(c)
  BY <1>2, <1>c DEF OpenBody, At, Writing
<1>3. CASE OpenMeta(c)
  BY <1>3, <1>c DEF OpenMeta, At, Writing
<1>4. CASE WriteBlock(c)
  BY <1>4, <1>b, Wrote DEF Home, Writing
<1>5. CASE UnlinkBody(c)
  BY <1>5, <1>a, <1>b, Unlinked DEF UnlinkBody, Unlink, At, Writing
<1>6. CASE UnlinkMeta(c)
  BY <1>6, <1>a, <1>b, Unlinked DEF UnlinkMeta, Unlink, At, Writing
<1>7. CASE End(c)
  BY <1>7, <1>a, <1>b, Closed
<1> QED
  BY <1>1, <1>2, <1>3, <1>4, <1>5, <1>6, <1>7, DiskSteps

\* What is at a key is what its paths name.
LEMMA SameStored ==
    ASSUME NEW k \in Key, Same(Body(k)), Same(Meta(k))
    PROVE  Stored(k)' = Stored(k)
<1>1. Named(Body(k))' = Named(Body(k)) /\ Named(Meta(k))' = Named(Meta(k))
  BY DEF Same, Named
<1>2. /\ Named(Body(k)) => Contents(Body(k))' = Contents(Body(k))
      /\ Named(Meta(k)) => Contents(Meta(k))' = Contents(Meta(k))
  BY DEF Same, Named, Contents
<1>3. TypeOf(k)' = TypeOf(k)
  BY <1>1, <1>2 DEF TypeOf
<1> QED
  BY <1>1, <1>2, <1>3 DEF Stored

LEMMA PathsDiffer ==
    ASSUME NEW j, NEW k
    PROVE  /\ Body(j) # Meta(k)
           /\ Body(j) = Body(k) <=> j = k
           /\ Meta(j) = Meta(k) <=> j = k
BY DEF Body, Meta

\* A step changes what is at the key of a write, if it is one, and nothing else.
LEMMA StoredStays ==
    ASSUME TypedInv, DiskInv, OpenInv, NEW c \in Client, ClientStep(c), NEW k \in Key,
           ~(work[c].at \in Writing /\ k = KeyOf(c))
    PROVE  Same(Body(k)) /\ Same(Meta(k)) /\ Stored(k)' = Stored(k)
<1>1. Same(Body(k)) /\ Same(Meta(k))
  BY StepFrame, PathsDiffer
<1> QED
  BY <1>1, SameStored

\* What is at a key is an object, or nothing.
LEMMA StoredIs ==
    ASSUME DiskInv, NEW k \in Key
    PROVE  /\ Stored(k) \in Object \cup {Absent}
           /\ Named(Body(k)) <=> Stored(k) # Absent
           /\ Named(Body(k)) => Stored(k).body = Contents(Body(k)) /\ Stored(k).type = TypeOf(k)
           /\ Stored(k) # Unknown
<1>1. ASSUME Named(Body(k)) PROVE Contents(Body(k)) \in Seq(Data)
  BY <1>1 DEF Named, Contents, DiskInv
<1>2. TypeOf(k) \in Data
  <2>1. CASE Named(Meta(k)) /\ Len(Contents(Meta(k))) = 1
    <3>1. Contents(Meta(k)) \in Seq(Data)
      BY <2>1 DEF Named, Contents, DiskInv
    <3>2. Contents(Meta(k))[1] \in Data
      BY <2>1, <3>1, ElementOfSeq
    <3> QED
      BY <2>1, <3>2 DEF TypeOf
  <2>2. CASE ~(Named(Meta(k)) /\ Len(Contents(Meta(k))) = 1)
    BY <2>2 DEF TypeOf, Data
  <2> QED
    BY <2>1, <2>2
<1>3. Absent # Unknown /\ Absent \notin Object /\ Unknown \notin Object
  BY StorageAssumption
<1>4. CASE Named(Body(k))
  <2>1. Stored(k) = [body |-> Contents(Body(k)), type |-> TypeOf(k)]
    BY <1>4 DEF Stored
  <2>2. Stored(k) \in Object
    BY <1>1, <1>2, <1>4, <2>1 DEF Object
  <2> QED
    BY <1>3, <1>4, <2>1, <2>2
<1>5. CASE ~Named(Body(k))
  BY <1>3, <1>5 DEF Stored
<1> QED
  BY <1>4, <1>5

-----------------------------------------------------------------------------
(***************************************************************************)
(* The calls.                                                              *)
(***************************************************************************)
\* What becomes of the call of a client while others begin and end theirs.
Later(d, x) ==
    /\ work[d].at = "idle" => x = Promise!NoCall
    /\ work[d].at \in Writing =>
          /\ x \in WriteCalls /\ x.key = call[d].key /\ x.new = call[d].new
          /\ x.alone => call[d].alone
    /\ work[d].at \in Getting => x \in GetCalls /\ x.key = call[d].key
    /\ work[d].at \in Listing => x \in ListCalls
    /\ work[d].at \in Getting \cup Listing =>
          \A k \in Key : x.expect[k] \in {Unknown, call[d].expect[k]}

KindOk(d) ==
    /\ work[d].at \in {"idle"} \cup Writing \cup Getting \cup Listing
    /\ work[d].at = "idle" => call[d] = Promise!NoCall
    /\ work[d].at \in Writing => call[d] \in WriteCalls
    /\ work[d].at \in Getting => call[d] \in GetCalls
    /\ work[d].at \in Listing => call[d] \in ListCalls
    /\ \A k : Promise!Writes(d, k) <=> work[d].at \in Writing /\ KeyOf(d) = k
    /\ Promise!Reads(d) <=> work[d].at \in Getting \cup Listing
    /\ call[d] = Promise!NoCall <=> work[d].at = "idle"
    /\ call[d].op = "write" <=> work[d].at \in Writing
    /\ call[d].op = "get" <=> work[d].at \in Getting
    /\ call[d].op = "list" <=> work[d].at \in Listing
    /\ work[d].at \in Writing \cup Getting => KeyOf(d) \in Key

LEMMA CallIs ==
    ASSUME TypedInv, NEW d \in Client
    PROVE  KindOk(d)
<1> USE DEF KindOk, Writing, Getting, Listing
<1>1. CallOk(d)
  BY DEF TypedInv
<1>2. CASE work[d].at = "idle" /\ call[d] = Promise!NoCall
  BY <1>2 DEF Promise!Writes, Promise!Reads, Promise!NoCall
<1>3. CASE work[d].at \in Writing /\ call[d] \in WriteCalls
  BY <1>3 DEF Promise!Writes, Promise!Reads, Promise!NoCall, WriteCalls, KeyOf
<1>4. CASE work[d].at \in Getting /\ call[d] \in GetCalls
  BY <1>4 DEF Promise!Writes, Promise!Reads, Promise!NoCall, GetCalls, KeyOf
<1>5. CASE work[d].at \in Listing /\ call[d] \in ListCalls
  BY <1>5 DEF Promise!Writes, Promise!Reads, Promise!NoCall, ListCalls, KeyOf
<1> QED
  BY <1>1, <1>2, <1>3, <1>4, <1>5 DEF CallOk

LEMMA CallIsNext ==
    ASSUME NEW d \in Client
    PROVE  TypedInv' => KindOk(d)'
<1>1. TypedInv => KindOk(d)
  BY CallIs
<1> QED
  BY <1>1, PTL

LEMMA CallStays ==
    ASSUME TypedInv, NEW d \in Client PROVE Later(d, call[d])
BY CallIs DEF KindOk, Later, WriteCalls, GetCalls, ListCalls

LEMMA Overlaps ==
    ASSUME TypedInv, NEW d \in Client, NEW k \in Key
    PROVE  LET x == Promise!Overlapped(k)[d]
           IN  /\ Later(d, x)
               /\ work[d].at \in Writing /\ KeyOf(d) = k => ~x.alone
               /\ work[d].at \in Getting \cup Listing => x.expect[k] = Unknown
<1> DEFINE x == Promise!Overlapped(k)[d]
<1>1. CASE work[d].at = "idle"
  <2>1. ~Promise!Writes(d, k) /\ ~Promise!Reads(d) /\ call[d] = Promise!NoCall
    BY <1>1, CallIs DEF KindOk, Writing, Getting, Listing
  <2>2. x = call[d]
    BY <2>1 DEF Promise!Overlapped
  <2> QED
    BY <1>1, <2>1, <2>2 DEF Later, Writing, Getting, Listing
<1>2. CASE work[d].at \in Writing
  <2>1. call[d] \in WriteCalls /\ ~Promise!Reads(d)
        /\ (Promise!Writes(d, k) <=> KeyOf(d) = k)
    BY <1>2, CallIs DEF KindOk, Writing, Getting, Listing
  <2>2. x = IF KeyOf(d) = k THEN [call[d] EXCEPT !.alone = FALSE] ELSE call[d]
    BY <2>1 DEF Promise!Overlapped
  <2> HIDE DEF x
  <2>3. x \in WriteCalls /\ x.key = call[d].key /\ x.new = call[d].new
        /\ (KeyOf(d) = k => x.alone = FALSE) /\ (KeyOf(d) # k => x.alone = call[d].alone)
    BY <2>1, <2>2 DEF WriteCalls
  <2>4. Later(d, x)
    BY <1>2, <2>3 DEF Later, Writing, Getting, Listing
  <2> QED
    BY <1>2, <2>3, <2>4 DEF x, Writing, Getting, Listing
<1>3. CASE work[d].at \in Getting
  <2>1. call[d] \in GetCalls /\ Promise!Reads(d) /\ ~Promise!Writes(d, k)
    BY <1>3, CallIs DEF KindOk, Writing, Getting, Listing
  <2>2. x = [call[d] EXCEPT !.expect[k] = Unknown]
    BY <2>1 DEF Promise!Overlapped
  <2>3. x = [op |-> call[d].op, key |-> call[d].key,
             expect |-> [call[d].expect EXCEPT ![k] = Unknown]]
    BY <2>1, <2>2 DEF GetCalls
  <2> HIDE DEF x
  <2>4. [call[d].expect EXCEPT ![k] = Unknown] \in Expected
    BY <2>1 DEF GetCalls, Expected
  <2>5. x \in GetCalls /\ x.key = call[d].key
        /\ \A j \in Key : x.expect[j] = IF j = k THEN Unknown ELSE call[d].expect[j]
    BY <2>1, <2>3, <2>4 DEF GetCalls, Expected
  <2>6. Later(d, x)
    BY <1>3, <2>5 DEF Later, Writing, Getting, Listing
  <2> QED
    BY <1>3, <2>5, <2>6 DEF x, Writing, Getting, Listing
<1>4. CASE work[d].at \in Listing
  <2>1. call[d] \in ListCalls /\ Promise!Reads(d) /\ ~Promise!Writes(d, k)
    BY <1>4, CallIs DEF KindOk, Writing, Getting, Listing
  <2>2. x = [call[d] EXCEPT !.expect[k] = Unknown]
    BY <2>1 DEF Promise!Overlapped
  <2>3. x = [op |-> call[d].op, expect |-> [call[d].expect EXCEPT ![k] = Unknown]]
    BY <2>1, <2>2 DEF ListCalls
  <2> HIDE DEF x
  <2>4. [call[d].expect EXCEPT ![k] = Unknown] \in Expected
    BY <2>1 DEF ListCalls, Expected
  <2>5. x \in ListCalls
        /\ \A j \in Key : x.expect[j] = IF j = k THEN Unknown ELSE call[d].expect[j]
    BY <2>1, <2>3, <2>4 DEF ListCalls, Expected
  <2>6. Later(d, x)
    BY <1>4, <2>5 DEF Later, Writing, Getting, Listing
  <2> QED
    BY <1>4, <2>5, <2>6 DEF x, Writing, Getting, Listing
<1> QED
  BY <1>1, <1>2, <1>3, <1>4, CallIs DEF KindOk

\* A client that is idle begins a call, or stays idle.
LEMMA BeginsAt ==
    ASSUME TypedInv, NEW c \in Client, ClientStep(c), work[c].at = "idle"
    PROVE  work'[c].at \in {"idle", "put", "delete", "get", "list"} /\ UNCHANGED disk
<1>a. DOMAIN work = Client
  BY DEF TypedInv
<1>1. \/ \E k \in Key : \/ \E x \in Content : BeginPut(c, k, x)
                        \/ BeginDelete(c, k) \/ BeginGet(c, k) \/ ObjectExists(c, k)
      \/ BeginList(c)
  BY DEF ClientStep, WriteStep, ReadStep, OpenBody, WriteBlock, OpenMeta, UnlinkBody,
         UnlinkMeta, Unlink, EndWrite, OpenForReading, NotFound, ReadBlock, EndOfFile,
         ListKeys, Stat, ReadSidecar, StatAgain, StatGone, EndList, Fail, At
<1> QED
  BY <1>1, <1>a DEF BeginPut, BeginDelete, BeginGet, ObjectExists, BeginList, Begin, Goes

\* A step begins a write, a get or a listing, ends a call, or does neither.
LEMMA CallSteps ==
    ASSUME NEW c \in Client, ClientStep(c)
    PROVE  \/ UNCHANGED call
           \/ \E k \in Key, new \in Content \cup {Absent} :
                 call' = Promise!WriteCall(c, k, new) /\ work[c].at = "idle"
           \/ \E k \in Key : call' = Promise!GetCall(c, k) /\ work[c].at = "idle"
           \/ call' = Promise!ListCall(c) /\ work[c].at = "idle"
           \/ call' = Promise!Ended(c)
BY DEF ClientStep, BeginPut, BeginDelete, BeginGet, BeginList, ObjectExists, Begin, At,
       WriteStep, ReadStep, OpenForReading, NotFound, ReadBlock, EndOfFile, ListKeys,
       Stat, ReadSidecar, StatAgain, StatGone, EndList, EndWrite, Fail, Return, End,
       OpenBody, OpenMeta, OpenFile, WriteBlock, UnlinkBody, UnlinkMeta, Unlink

LEMMA OthersCall ==
    ASSUME TypedInv, NEW c \in Client, ClientStep(c)
    PROVE  DOMAIN call' = Client /\ \A d \in Client \ {c} : Later(d, call'[d])
<1>a. DOMAIN call = Client
  BY DEF TypedInv
<1>1. CASE UNCHANGED call
  BY <1>1, <1>a, CallStays
<1>2. ASSUME NEW k \in Key, NEW new \in Content \cup {Absent},
             call' = Promise!WriteCall(c, k, new)
      PROVE  DOMAIN call' = Client /\ \A d \in Client \ {c} : Later(d, call'[d])
  <2>1. DOMAIN Promise!Overlapped(k) = Client
    BY DEF Promise!Overlapped
  <2>2. DOMAIN call' = Client
        /\ \A d \in Client \ {c} : call'[d] = Promise!Overlapped(k)[d]
    BY <1>2, <2>1 DEF Promise!WriteCall
  <2> QED
    BY <2>2, Overlaps
<1>3. ASSUME NEW x, call' = [call EXCEPT ![c] = x]
      PROVE  DOMAIN call' = Client /\ \A d \in Client \ {c} : Later(d, call'[d])
  <2>1. DOMAIN call' = Client /\ \A d \in Client \ {c} : call'[d] = call[d]
    BY <1>3, <1>a
  <2> QED
    BY <2>1, CallStays
<1> QED
  BY <1>1, <1>2, <1>3, CallSteps DEF Promise!GetCall, Promise!ListCall, Promise!Ended

-----------------------------------------------------------------------------
(***************************************************************************)
(* The key at hand, what is put, and what a read may rely on.              *)
(***************************************************************************)
LEMMA NatLeast ==
    ASSUME NEW T \in SUBSET Nat, T # {}
    PROVE  \E n \in T : \A m \in T : n <= m
<1> DEFINE R == {ss \in Nat \X Nat : ss[1] < ss[2]}
<1>1. IsWellFoundedOn(R, Nat)
  BY NatLessThanWellFounded DEF OpToRel
<1>2. \A m, n \in Nat : m < n => <<m, n>> \in R
  OBVIOUS
<1> HIDE DEF R
<1>3. \E n \in T : \A m \in T : ~(<<m, n>> \in R)
  BY <1>1, WFMin
<1>4. \A m \in T : m \in Nat
  OBVIOUS
<1>5. \A m, n \in Nat : <<m, n>> \notin R => n <= m
  BY <1>2
<1> QED
  BY <1>3, <1>4, <1>5, Zenon

LEMMA MinIsLeast ==
    ASSUME NEW S \in SUBSET Nat, S # {}
    PROVE  Min(S) \in S /\ \A x \in S : Min(S) <= x
BY NatLeast DEF Min

\* The first of some keys is one of them.
LEMMA FirstIs ==
    ASSUME NEW keys \in SUBSET Key, keys # {}
    PROVE  FirstOf(keys) \in keys
<1> DEFINE S == {i \in DOMAIN KeyOrder : KeyOrder[i] \in keys}
<1>1. KeyOrder \in Seq(Key) /\ ToSet(KeyOrder) = Key
  BY StorageAssumption
<1>2. DOMAIN KeyOrder = 1 .. Len(KeyOrder) /\ Len(KeyOrder) \in Nat
  BY <1>1, LenProperties
<1>3. S \in SUBSET Nat
  BY <1>2
<1>4. S # {}
  BY <1>1 DEF ToSet
<1>5. Min(S) \in S
  BY <1>3, <1>4, MinIsLeast
<1> QED
  BY <1>5 DEF FirstOf

LEMMA ContentIs ==
    ASSUME NEW x \in Content
    PROVE  /\ x.body \in Seq(Data) /\ x.type \in Data /\ x \in Object
           /\ x = [body |-> x.body, type |-> x.type]
           /\ x # Absent /\ x # Unknown
<1>1. x \in [body: Seq(Block), type: Type]
  BY StorageAssumption
<1>2. x.body \in Seq(Data)
  <2>1. PICK n \in Nat : x.body \in [1 .. n -> Block]
    BY <1>1
  <2>2. x.body \in [1 .. n -> Data]
    BY <2>1 DEF Data
  <2> QED
    BY <2>2
<1>3. x.type \in Data
  BY <1>1 DEF Data
<1>4. x \in Object
  BY <1>1, <1>2, <1>3 DEF Object
<1> QED
  BY <1>1, <1>2, <1>3, <1>4, StorageAssumption

LEMMA ViewIs ==
    ASSUME DiskInv
    PROVE  /\ Promise!View \in Expected
           /\ \A k \in Key : Promise!View[k] # Unknown =>
                 ~Promise!Written(k) /\ Promise!View[k] = Stored(k)
<1>1. \A k \in Key : Promise!View[k] = IF Promise!Written(k) THEN Unknown ELSE Stored(k)
  BY DEF Promise!View
<1>2. \A k \in Key : Stored(k) \in Object \cup {Absent}
  BY StoredIs
<1>3. Promise!View \in Expected
  BY <1>1, <1>2 DEF Promise!View, Expected
<1> QED
  BY <1>1, <1>3

-----------------------------------------------------------------------------
(***************************************************************************)
(* The types.                                                              *)
(***************************************************************************)
\* A client that begins a call.
LEMMA Begins ==
    ASSUME TypedInv, NEW c \in Client, NEW step, Begin(c, step)
    PROVE  /\ work[c].at = "idle" /\ work'[c].at = step /\ UNCHANGED disk
           /\ reply' = Promise!NoReply
BY GoesTo DEF Begin, At, Silent

LEMMA OwnCall ==
    ASSUME TypedInv, DiskInv, NEW c \in Client, ClientStep(c)
    PROVE  CallOk(c)'
<1> USE DEF Writing, Getting, Listing
<1>a. DOMAIN call = Client /\ DOMAIN work = Client /\ CallOk(c)
  BY DEF TypedInv
<1>1. ASSUME NEW k \in Key, NEW new \in Content \cup {Absent}, NEW step, Begin(c, step),
             IF new \in Content THEN step = "put" ELSE step = "delete",
             call' = Promise!WriteCall(c, k, new)
      PROVE  CallOk(c)'
  <2>1. call'[c] = [op |-> "write", key |-> k, new |-> new, alone |-> ~Promise!Written(k)]
    BY <1>1 DEF Promise!WriteCall, Promise!Overlapped
  <2>2. call'[c] \in WriteCalls /\ call'[c].new = new
    BY <2>1 DEF WriteCalls
  <2>3. work'[c].at = step
    BY <1>1, Begins
  <2> QED
    BY <1>1, <2>2, <2>3 DEF CallOk
<1>2. ASSUME NEW k \in Key, BeginGet(c, k) PROVE CallOk(c)'
  <2>1. call'[c] = [op |-> "get", key |-> k, expect |-> Promise!View]
    BY <1>2, <1>a DEF BeginGet, Promise!GetCall
  <2>2. call'[c] \in GetCalls
    BY <2>1, ViewIs DEF GetCalls
  <2>3. work'[c].at = "get"
    BY <1>2, Begins DEF BeginGet
  <2> QED
    BY <2>2, <2>3 DEF CallOk
<1>3. CASE BeginList(c)
  <2>1. call'[c] = [op |-> "list", expect |-> Promise!View]
    BY <1>3, <1>a DEF BeginList, Promise!ListCall
  <2>2. call'[c] \in ListCalls
    BY <2>1, ViewIs DEF ListCalls
  <2>3. work'[c].at = "list"
    BY <1>3, Begins DEF BeginList
  <2> QED
    BY <2>2, <2>3 DEF CallOk
<1>4. CASE End(c)
  <2>1. call'[c] = Promise!NoCall /\ work'[c].at = "idle"
    BY <1>4, <1>a, EndsAt DEF End, Promise!Ended
  <2> QED
    BY <2>1 DEF CallOk
<1>5. ASSUME UNCHANGED call, work[c].at # "idle",
             \/ work[c].at \in {"put", "body", "meta"} /\ work'[c].at \in {"put", "body", "meta"}
             \/ work[c].at \in {"delete", "unlink", "deleted"}
                /\ work'[c].at \in {"delete", "unlink", "deleted"}
             \/ work[c].at \in Getting /\ work'[c].at \in Getting
             \/ work[c].at \in Listing /\ work'[c].at \in Listing
      PROVE  CallOk(c)'
  BY <1>5, <1>a DEF CallOk
<1>6. CASE OpenBody(c) \/ OpenMeta(c)
  <2>1. /\ UNCHANGED call /\ work[c].at \in {"put", "body"}
        /\ work'[c].at \in {"body", "meta"}
    BY <1>6, <1>a DEF OpenBody, OpenMeta, OpenFile, Goes, At
  <2> QED
    BY <2>1, <1>5
<1>7. CASE WriteBlock(c)
  <2>1. /\ UNCHANGED call /\ work[c].at \in {"body", "meta"} /\ work'[c].at = work[c].at
    BY <1>7, <1>a DEF WriteBlock, Goes
  <2> QED
    BY <2>1, <1>5
<1>8. CASE UnlinkBody(c) \/ UnlinkMeta(c)
  <2>1. /\ UNCHANGED call /\ work[c].at \in {"delete", "unlink"}
        /\ work'[c].at \in {"unlink", "deleted"}
    BY <1>8, <1>a DEF UnlinkBody, UnlinkMeta, Unlink, Goes, At
  <2> QED
    BY <2>1, <1>5
<1>9. CASE OpenForReading(c) \/ ReadBlock(c)
  <2>1. UNCHANGED call /\ work[c].at \in Getting /\ work'[c].at \in Getting
    BY <1>9, <1>a DEF OpenForReading, ReadBlock, Goes, At
  <2> QED
    BY <2>1, <1>5
<1>10. CASE ListKeys(c) \/ Stat(c) \/ ReadSidecar(c) \/ StatAgain(c)
  <2>1. UNCHANGED call /\ work[c].at \in Listing /\ work'[c].at \in Listing
    BY <1>10, <1>a DEF ListKeys, Stat, ReadSidecar, StatAgain, Goes, At
  <2> QED
    BY <2>1, <1>5
<1>11. ASSUME NEW k \in Key, ObjectExists(c, k) PROVE CallOk(c)'
  BY <1>11, <1>a DEF ObjectExists, CallOk
<1>12. Absent \notin Content
  BY ContentIs
<1> QED
  BY <1>1, <1>2, <1>3, <1>4, <1>6, <1>7, <1>8, <1>9, <1>10, <1>11, <1>12
     DEF ClientStep, WriteStep, ReadStep, BeginPut, BeginDelete, EndWrite, NotFound,
         EndOfFile, StatGone, EndList, Fail, Return

LEMMA OpensBody ==
    ASSUME NEW c, OpenBody(c)
    PROVE  /\ \E path, todo : /\ path = Body(KeyOf(c)) /\ todo = call[c].new.body
                              /\ OpenFile(c, path, "body", todo)
           /\ work[c].at = "put"
<1>1. PICK path, todo : path = Body(KeyOf(c)) /\ todo = call[c].new.body
  OBVIOUS
<1>2. OpenFile(c, Body(KeyOf(c)), "body", call[c].new.body) /\ work[c].at = "put"
  BY DEF OpenBody, At
<1>3. OpenFile(c, path, "body", todo)
  BY <1>1, <1>2 DEF OpenFile, Named
<1> QED
  BY <1>1, <1>2, <1>3

LEMMA OpensMeta ==
    ASSUME NEW c, OpenMeta(c)
    PROVE  /\ \E path, todo : /\ path = Meta(KeyOf(c)) /\ todo = <<call[c].new.type>>
                              /\ OpenFile(c, path, "meta", todo)
           /\ work[c].at = "body" /\ work[c].todo = <<>>
<1>1. PICK path, todo : path = Meta(KeyOf(c)) /\ todo = <<call[c].new.type>>
  OBVIOUS
<1>2. /\ OpenFile(c, Meta(KeyOf(c)), "meta", <<call[c].new.type>>)
      /\ work[c].at = "body" /\ work[c].todo = <<>>
  BY DEF OpenMeta, At
<1>3. OpenFile(c, path, "meta", todo)
  BY <1>1, <1>2 DEF OpenFile, Named
<1> QED
  BY <1>1, <1>2, <1>3

LEMMA OwnWork ==
    ASSUME TypedInv, DiskInv, OpenInv, NEW c \in Client, ClientStep(c)
    PROVE  WorkOk(c)'
<1> USE DEF Listing, Open
<1>a. DOMAIN work = Client /\ CallOk(c) /\ WorkOk(c)
  BY DEF TypedInv
<1>1. ASSUME work'[c].at \in {"idle", "put", "delete", "unlink", "deleted", "get", "list"}
      PROVE  WorkOk(c)'
  BY <1>1 DEF WorkOk
<1>2. ASSUME NEW step, Begin(c, step), step \in {"put", "delete", "get", "list"}
      PROVE  WorkOk(c)'
  BY <1>1, <1>2, Begins
<1>3. CASE End(c)
  BY <1>1, <1>3, EndsAt
<1>b. ASSUME NEW path, NEW step, NEW todo, OpenFile(c, path, step, todo)
      PROVE  names'[path] \in DOMAIN blocks'
  BY <1>b, Opened
<1>4. CASE OpenBody(c)
  <2>1. work[c].at = "put" /\ call[c].new.body \in Seq(Data)
    BY <1>4, <1>a, ContentIs, OpensBody DEF CallOk, Getting
  <2>2. PICK path, todo : /\ path = Body(KeyOf(c)) /\ todo = call[c].new.body
                         /\ OpenFile(c, path, "body", todo)
    BY <1>4, OpensBody
  <2>3. names'[path] \in DOMAIN blocks'
    BY <2>2, <1>b
  <2>4. work' = [work EXCEPT ![c] = [at |-> "body", file |-> names'[path],
                                     todo |-> todo, got |-> <<>>]]
    BY <2>2 DEF OpenFile, Goes
  <2>5. /\ work'[c].at = "body" /\ work'[c].file \in DOMAIN blocks'
        /\ work'[c].todo = todo /\ work'[c].got = <<>>
    BY <2>3, <2>4, <1>a
  <2> QED
    BY <2>1, <2>2, <2>5 DEF WorkOk
<1>5. CASE OpenMeta(c)
  <2>1. work[c].at = "body" /\ call[c].new.type \in Data
    BY <1>5, <1>a, ContentIs, OpensMeta DEF CallOk, Getting
  <2>2. PICK path, todo : /\ path = Meta(KeyOf(c)) /\ todo = <<call[c].new.type>>
                         /\ OpenFile(c, path, "meta", todo)
    BY <1>5, OpensMeta
  <2>3. names'[path] \in DOMAIN blocks'
    BY <2>2, <1>b
  <2>4. work' = [work EXCEPT ![c] = [at |-> "meta", file |-> names'[path],
                                     todo |-> todo, got |-> <<>>]]
    BY <2>2 DEF OpenFile, Goes
  <2>5. /\ work'[c].at = "meta" /\ work'[c].file \in DOMAIN blocks'
        /\ work'[c].todo = todo /\ work'[c].got = <<>>
    BY <2>3, <2>4, <1>a
  <2> QED
    BY <2>1, <2>2, <2>5 DEF WorkOk
<1>6. CASE WriteBlock(c)
  <2> DEFINE todo == work[c].todo
             got  == work[c].got
  <2>1. /\ got \in Seq(Data) /\ todo \in Seq(Data) /\ todo # <<>> /\ Head(todo) \in Data
        /\ work[c].file \in DOMAIN blocks' /\ work[c].at \in {"body", "meta"}
        /\ Goes(c, work[c].at, work[c].file, Tail(todo), Append(got, Head(todo)))
    BY <1>6, Wrote
  <2>2. /\ work'[c].at = work[c].at /\ work'[c].file = work[c].file
        /\ work'[c].todo = Tail(todo) /\ work'[c].got = Append(got, Head(todo))
    BY <2>1, <1>a DEF Goes
  <2>3. /\ Tail(todo) \in Seq(Data) /\ Len(Tail(todo)) = Len(todo) - 1
        /\ Append(got, Head(todo)) \in Seq(Data)
        /\ Len(Append(got, Head(todo))) = Len(got) + 1
        /\ Len(todo) \in Nat /\ Len(got) \in Nat
    BY <2>1, HeadTailProperties, AppendProperties, LenProperties
  <2>4. work[c].at = "meta" => Len(got) + Len(todo) = 1
    BY <1>a DEF WorkOk
  <2> HIDE DEF todo, got
  <2> QED
    BY <2>1, <2>2, <2>3, <2>4 DEF WorkOk
<1>7. CASE UnlinkBody(c) \/ UnlinkMeta(c)
  <2>1. work'[c].at \in {"unlink", "deleted"}
    BY <1>7, <1>a DEF UnlinkBody, UnlinkMeta, Unlink, Goes
  <2> QED
    BY <2>1, <1>1
<1>8. CASE OpenForReading(c)
  <2>1. /\ Goes(c, "read", names[Body(KeyOf(c))], <<>>, <<>>) /\ UNCHANGED blocks
        /\ Named(Body(KeyOf(c)))
    BY <1>8 DEF OpenForReading, disk
  <2>2. names[Body(KeyOf(c))] \in DOMAIN blocks
    BY <2>1 DEF Named, DiskInv
  <2>3. /\ work'[c].at = "read" /\ work'[c].file \in DOMAIN blocks' /\ work'[c].got = <<>>
    BY <2>1, <2>2, GoesTo
  <2> QED
    BY <2>3 DEF WorkOk
<1>9. CASE ReadBlock(c)
  <2> DEFINE file == work[c].file
             got  == work[c].got
  <2>0. PICK next : next = blocks[file][Len(got) + 1]
    OBVIOUS
  <2>1. /\ work[c].at = "read" /\ ~AtEnd(c) /\ UNCHANGED blocks
        /\ Goes(c, "read", file, <<>>, Append(got, next))
    BY <1>9, <2>0 DEF ReadBlock, At, disk
  <2>2. /\ got \in Seq(Data) /\ file \in DOMAIN blocks /\ blocks[file] \in Seq(Data)
    BY <2>1, <1>a DEF WorkOk, DiskInv
  <2>3. Len(got) + 1 \in 1 .. Len(blocks[file])
    BY <2>1, <2>2, LenProperties DEF AtEnd
  <2>4. next \in Data
    BY <2>0, <2>2, <2>3, ElementOfSeq
  <2>5. /\ work'[c].at = "read" /\ work'[c].file = file /\ work'[c].got = Append(got, next)
    BY <2>1, <1>a DEF Goes
  <2>6. Append(got, next) \in Seq(Data)
    BY <2>2, <2>4, AppendProperties
  <2> QED
    BY <2>1, <2>2, <2>5, <2>6 DEF WorkOk
<1>10. CASE ListKeys(c)
  <2>1. /\ work'[c].at = "stat" /\ work'[c].todo \subseteq Key /\ work'[c].got = <<>>
    BY <1>10, GoesTo DEF ListKeys
  <2> QED
    BY <2>1 DEF WorkOk
<1>11. CASE Stat(c) \/ ReadSidecar(c) \/ StatAgain(c)
  <2>1. /\ work[c].at \in {"stat", "sidecar", "restat"} /\ work[c].todo # {}
        /\ work[c].todo \in SUBSET Key /\ DOMAIN work[c].got \subseteq Key
    BY <1>11, <1>a DEF Stat, ReadSidecar, StatAgain, At, WorkOk
  <2>2. KeyAtHand(c) \in Key
    BY <2>1, FirstIs DEF KeyAtHand
  <2>3. /\ work'[c].at \in {"stat", "sidecar", "restat"}
        /\ work'[c].todo \in {work[c].todo, Others(c)}
        /\ work'[c].at \in {"sidecar", "restat"} => work'[c].todo = work[c].todo
        /\ \/ work'[c].got = work[c].got
           \/ \E entry : work'[c].got = With(work[c].got, KeyAtHand(c), entry)
    BY <1>11, GoesTo DEF Stat, ReadSidecar, StatAgain
  <2>4. \A entry : DOMAIN With(work[c].got, KeyAtHand(c), entry) \subseteq Key
    BY <2>1, <2>2 DEF With
  <2> QED
    BY <2>1, <2>3, <2>4 DEF WorkOk, Others
<1>12. ASSUME NEW k \in Key, ObjectExists(c, k) PROVE WorkOk(c)'
  BY <1>12, <1>a DEF ObjectExists, WorkOk, disk
<1> QED
  BY <1>2, <1>3, <1>4, <1>5, <1>6, <1>7, <1>8, <1>9, <1>10, <1>11, <1>12
     DEF ClientStep, WriteStep, ReadStep, BeginPut, BeginDelete, BeginGet, BeginList,
         EndWrite, NotFound, EndOfFile, StatGone, EndList, Fail, Return

LEMMA TypedNext ==
    ASSUME TypedInv, DiskInv, OpenInv, NEW c \in Client, ClientStep(c)
    PROVE  TypedInv'
<1>1. /\ DOMAIN work' = Client /\ DOMAIN call' = Client
      /\ CallOk(c)' /\ WorkOk(c)'
  BY OthersWork, OthersCall, OwnCall, OwnWork
<1>2. ASSUME NEW d \in Client \ {c} PROVE CallOk(d)' /\ WorkOk(d)'
  <2>1. work'[d] = work[d] /\ Later(d, call'[d])
        /\ (work[d].at \in Open => work[d].file \in DOMAIN blocks')
        /\ CallOk(d) /\ WorkOk(d)
    BY OthersWork, OthersCall, StepFrame DEF TypedInv
  <2>2. CallOk(d)'
    BY <2>1 DEF CallOk, Later
  <2>3. WorkOk(d)'
    BY <2>1 DEF WorkOk
  <2> QED
    BY <2>2, <2>3
<1> QED
  BY <1>1, <1>2 DEF TypedInv

LEMMA DiskNext ==
    ASSUME TypedInv, DiskInv, OpenInv, NEW c \in Client, ClientStep(c)
    PROVE  DiskInv'
<1> USE DEF DiskInv, Named, Contents
<1>1. CASE UNCHANGED disk
  BY <1>1 DEF disk
<1>2. ASSUME NEW path, NEW step, NEW todo, OpenFile(c, path, step, todo) PROVE DiskInv'
  <2>1. /\ \A p : p # path => Same(p)
        /\ DOMAIN names' = DOMAIN names \cup {path}
        /\ names'[path] \in DOMAIN blocks' /\ blocks'[names'[path]] = <<>>
        /\ DOMAIN blocks \subseteq DOMAIN blocks' /\ DOMAIN blocks' \subseteq File
        /\ \A f \in DOMAIN blocks' : f # names'[path] =>
              f \in DOMAIN blocks /\ blocks'[f] = blocks[f]
        /\ path \in DOMAIN names => names'[path] = names[path]
        /\ path \notin DOMAIN names => names'[path] \notin DOMAIN blocks
    BY <1>2, Opened
  <2>2. \A p \in DOMAIN names' : names'[p] \in DOMAIN blocks'
    BY <2>1 DEF Same
  <2>3. \A p, q \in DOMAIN names' : names'[p] = names'[q] => p = q
    <3>1. \A p \in DOMAIN names' : p # path =>
             p \in DOMAIN names /\ names'[p] = names[p] /\ names[p] \in DOMAIN blocks
      BY <2>1 DEF Same
    <3>2. \A p \in DOMAIN names' : p # path => names'[p] # names'[path]
      BY <2>1, <3>1
    <3> QED
      BY <3>1, <3>2
  <2>4. \A f \in DOMAIN blocks' : blocks'[f] \in Seq(Data)
    <3>1. <<>> \in Seq(Data)
      OBVIOUS
    <3>2. \A f \in DOMAIN blocks : blocks[f] \in Seq(Data)
      OBVIOUS
    <3> QED
      BY <2>1, <3>1, <3>2
  <2>5. ASSUME NEW k \in Key, Meta(k) \in DOMAIN names'
        PROVE  Len(blocks'[names'[Meta(k)]]) <= 1
    <3>1. CASE Meta(k) = path
      BY <3>1, <2>1
    <3>2. CASE Meta(k) # path
      <4>1. Meta(k) \in DOMAIN names
            /\ blocks'[names'[Meta(k)]] = blocks[names[Meta(k)]]
        BY <3>2, <2>1, <2>5 DEF Same
      <4> QED
        BY <4>1
    <3> QED
      BY <3>1, <3>2
  <2> QED
    BY <2>1, <2>2, <2>3, <2>4, <2>5
<1>3. CASE WriteBlock(c)
  <2> DEFINE file == work[c].file
             i    == Len(work[c].got) + 1
             new  == blocks'[file]
  <2>1. /\ names' = names /\ DOMAIN blocks' = DOMAIN blocks
        /\ file \in DOMAIN blocks /\ blocks[file] \in Seq(Data) /\ blocks'[file] \in Seq(Data)
        /\ work[c].got \in Seq(Data) /\ work[c].todo \in Seq(Data)
        /\ work[c].todo # <<>> /\ Head(work[c].todo) \in Data
        /\ new = WrittenAt(blocks[file], i, Head(work[c].todo))
        /\ \A f \in DOMAIN blocks : f # file => blocks'[f] = blocks[f]
        /\ work[c].at \in {"body", "meta"}
    BY <1>3, Wrote
  <2>2. \A f \in DOMAIN blocks' : blocks'[f] \in Seq(Data)
    BY <2>1
  <2>3. ASSUME NEW k \in Key, Meta(k) \in DOMAIN names
        PROVE  Len(blocks'[names[Meta(k)]]) <= 1
    <3>1. CASE names[Meta(k)] # file
      BY <3>1, <2>1, <2>3
    <3>2. CASE names[Meta(k)] = file
      <4>1. Meta(k) = Home(c)
        BY <3>2, <2>1, <2>3 DEF OpenInv, OpenOk, Open
      <4>2. work[c].at = "meta"
        BY <4>1, <2>1, PathsDiffer DEF Home
      <4>3. Len(work[c].got) + Len(work[c].todo) = 1
        BY <4>2 DEF TypedInv, WorkOk
      <4>4. /\ Len(work[c].got) \in Nat /\ Len(work[c].todo) \in Nat
            /\ Len(blocks[file]) \in Nat
        BY <2>1, LenProperties
      <4>a. Len(work[c].todo) # 0
        BY <2>1, EmptySeq
      <4>b. Len(work[c].got) = 0
        <5>1. \A m, n \in Nat : m + n = 1 /\ n # 0 => m = 0
          OBVIOUS
        <5> QED
          BY <5>1, <4>3, <4>4, <4>a
      <4>5. i = 1 /\ i \in Nat \ {0}
        BY <4>b
      <4> HIDE DEF i
      <4>c. PICK old \in Seq(Data), block \in Data :
                old = blocks[file] /\ block = Head(work[c].todo)
        BY <2>1
      <4>f. PICK written : written = new
        OBVIOUS
      <4>d. written = WrittenAt(old, 1, block)
        BY <2>1, <4>5, <4>c, <4>f DEF WrittenAt
      <4>e. 1 \in Nat \ {0}
        OBVIOUS
      <4>6. Len(WrittenAt(old, 1, block)) = IF Len(old) < 1 THEN 1 ELSE Len(old)
        BY <4>e, WrittenIs
      <4>7. Len(blocks[file]) <= 1
        BY <3>2, <2>3
      <4> QED
        BY <3>2, <4>4, <4>5, <4>6, <4>7, <4>c, <4>d, <4>f
    <3> QED
      BY <3>1, <3>2
  <2> QED
    BY <2>1, <2>2, <2>3
<1>4. ASSUME NEW step, NEW path, NEW next, Unlink(c, step, path, next) PROVE DiskInv'
  <2>1. /\ DOMAIN names' = DOMAIN names \ {path}
        /\ \A p \in DOMAIN names' : names'[p] = names[p] /\ names'[p] \in DOMAIN blocks'
        /\ DOMAIN blocks' \subseteq DOMAIN blocks
        /\ \A f \in DOMAIN blocks' : blocks'[f] = blocks[f]
    BY <1>4, Unlinked
  <2> QED
    BY <2>1
<1>5. CASE End(c)
  <2>1. /\ names' = names
        /\ \A p \in DOMAIN names' : names'[p] \in DOMAIN blocks'
        /\ DOMAIN blocks' \subseteq DOMAIN blocks
        /\ \A f \in DOMAIN blocks' : blocks'[f] = blocks[f]
    BY <1>5, Closed
  <2> QED
    BY <2>1
<1> QED
  BY <1>1, <1>2, <1>3, <1>4, <1>5, DiskSteps DEF OpenBody, OpenMeta, UnlinkBody, UnlinkMeta

-----------------------------------------------------------------------------
(***************************************************************************)
(* What is open has no other name.                                         *)
(***************************************************************************)
\* A name is an old one for the same file, or one for a new file.
LEMMA NamesFrame ==
    ASSUME TypedInv, DiskInv, OpenInv, NEW c \in Client, ClientStep(c), NEW p \in DOMAIN names'
    PROVE  \/ p \in DOMAIN names /\ names'[p] = names[p]
           \/ names'[p] \notin DOMAIN blocks
<1>1. ASSUME NEW path, NEW step, NEW todo, OpenFile(c, path, step, todo)
      PROVE  \/ p \in DOMAIN names /\ names'[p] = names[p]
             \/ names'[p] \notin DOMAIN blocks
  <2>1. /\ \A q : q # path => Same(q)
        /\ path \in DOMAIN names => names'[path] = names[path]
        /\ path \notin DOMAIN names => names'[path] \notin DOMAIN blocks
    BY <1>1, Opened
  <2> QED
    BY <2>1 DEF Same
<1>2. ASSUME NEW step, NEW path, NEW next, Unlink(c, step, path, next)
      PROVE  p \in DOMAIN names /\ names'[p] = names[p]
  <2>1. /\ DOMAIN names' = DOMAIN names \ {path}
        /\ \A q \in DOMAIN names' : names'[q] = names[q]
    BY <1>2, Unlinked
  <2> QED
    BY <2>1
<1>3. CASE UNCHANGED disk \/ WriteBlock(c) \/ End(c)
  BY <1>3, Wrote, Closed DEF disk
<1> QED
  BY <1>1, <1>2, <1>3, DiskSteps DEF OpenBody, OpenMeta, UnlinkBody, UnlinkMeta

\* What another client has at home stays there.
LEMMA OthersHome ==
    ASSUME TypedInv, NEW c \in Client, ClientStep(c), NEW d \in Client \ {c},
           work[d].at \in Writing \cup Getting
    PROVE  work'[d] = work[d] /\ KeyOf(d)' = KeyOf(d) /\ Home(d)' = Home(d)
<1>1. work'[d] = work[d] /\ Later(d, call'[d])
  BY OthersWork, OthersCall
<1>2. KeyOf(d)' = KeyOf(d)
  BY <1>1 DEF Later, KeyOf
<1> QED
  BY <1>1, <1>2 DEF Home

LEMMA OwnOpen ==
    ASSUME TypedInv, DiskInv, OpenInv, NEW c \in Client, ClientStep(c)
    PROVE  OpenOk(c)'
<1>a. DOMAIN work = Client /\ OpenOk(c) /\ DiskInv'
  BY DiskNext DEF TypedInv, OpenInv
<1>2. ASSUME work'[c].at \notin Open PROVE OpenOk(c)'
  BY <1>2 DEF OpenOk
<1>3. ASSUME UNCHANGED names, UNCHANGED call, work[c].at \in Open,
             work'[c].at = work[c].at, work'[c].file = work[c].file
      PROVE  OpenOk(c)'
  BY <1>3, <1>a DEF Home, KeyOf, OpenOk
<1>4. ASSUME UNCHANGED call, NEW path \in DOMAIN names', work'[c].file = names'[path],
             path = IF work'[c].at = "meta" THEN Meta(KeyOf(c)) ELSE Body(KeyOf(c))
      PROVE  OpenOk(c)'
  <2>1. \A p \in DOMAIN names' : names'[p] = names'[path] => p = path
    BY <1>a DEF DiskInv
  <2>2. KeyOf(c)' = KeyOf(c)
    BY <1>4 DEF KeyOf
  <2> QED
    BY <1>4, <2>1, <2>2 DEF Home, OpenOk
<1>5. ASSUME NEW path, NEW step, NEW todo, OpenFile(c, path, step, todo),
             path = IF step = "meta" THEN Meta(KeyOf(c)) ELSE Body(KeyOf(c))
      PROVE  OpenOk(c)'
  <2>1. /\ DOMAIN names' = DOMAIN names \cup {path} /\ UNCHANGED call
        /\ Goes(c, step, names'[path], todo, <<>>)
    BY <1>5, Opened
  <2>2. work'[c].at = step /\ work'[c].file = names'[path]
    BY <2>1, <1>a DEF Goes
  <2>3. path \in DOMAIN names'
    BY <2>1
  <2> QED
    BY <2>1, <2>2, <2>3, <1>4, <1>5
<1>6. CASE OpenBody(c)
  <2>1. PICK path, todo : /\ path = Body(KeyOf(c)) /\ todo = call[c].new.body
                         /\ OpenFile(c, path, "body", todo)
    BY <1>6, OpensBody
  <2> QED
    BY <2>1, <1>5
<1>7. CASE OpenMeta(c)
  <2>1. PICK path, todo : /\ path = Meta(KeyOf(c)) /\ todo = <<call[c].new.type>>
                         /\ OpenFile(c, path, "meta", todo)
    BY <1>7, OpensMeta
  <2> QED
    BY <2>1, <1>5
<1>8. CASE WriteBlock(c)
  <2>1. UNCHANGED names /\ UNCHANGED call /\ work[c].at \in Open
        /\ work'[c].at = work[c].at /\ work'[c].file = work[c].file
    BY <1>8, <1>a DEF WriteBlock, Goes, Open
  <2> QED
    BY <2>1, <1>3
<1>9. CASE ReadBlock(c)
  <2>1. UNCHANGED names /\ UNCHANGED call /\ work[c].at \in Open
        /\ work'[c].at = work[c].at /\ work'[c].file = work[c].file
    BY <1>9, <1>a DEF ReadBlock, Goes, Open, disk, At
  <2> QED
    BY <2>1, <1>3
<1>10. CASE OpenForReading(c)
  <2>1. /\ UNCHANGED names /\ UNCHANGED call /\ Body(KeyOf(c)) \in DOMAIN names
        /\ work'[c].at = "read" /\ work'[c].file = names[Body(KeyOf(c))]
    BY <1>10, <1>a DEF OpenForReading, Goes, disk, Named
  <2>2. PICK path : path = Body(KeyOf(c))
    OBVIOUS
  <2> QED
    <3>1. path \in DOMAIN names' /\ work'[c].file = names'[path]
      BY <2>1, <2>2
    <3> QED
      BY <2>1, <2>2, <3>1, <1>4
<1>11. CASE End(c)
  BY <1>2, <1>11, EndsAt DEF Open
<1>12. ASSUME NEW step, Begin(c, step), step \in {"put", "delete", "get", "list"}
       PROVE  OpenOk(c)'
  BY <1>2, <1>12, Begins DEF Open
<1>13. CASE UnlinkBody(c) \/ UnlinkMeta(c)
  <2>1. work'[c].at \in {"unlink", "deleted"}
    BY <1>13, <1>a DEF UnlinkBody, UnlinkMeta, Unlink, Goes
  <2> QED
    BY <2>1, <1>2 DEF Open
<1>14. CASE ListKeys(c) \/ Stat(c) \/ ReadSidecar(c) \/ StatAgain(c)
  <2>1. work'[c].at \in {"stat", "sidecar", "restat"}
    BY <1>14, <1>a DEF ListKeys, Stat, ReadSidecar, StatAgain, Goes
  <2> QED
    BY <2>1, <1>2 DEF Open
<1>15. ASSUME NEW k \in Key, ObjectExists(c, k) PROVE OpenOk(c)'
  <2>1. /\ UNCHANGED names /\ UNCHANGED call /\ UNCHANGED work
    BY <1>15 DEF ObjectExists, disk
  <2>2. Home(c)' = Home(c)
    BY <2>1 DEF Home, KeyOf
  <2> QED
    BY <2>1, <2>2, <1>a DEF OpenOk
<1> QED
  BY <1>6, <1>7, <1>8, <1>9, <1>10, <1>11, <1>12, <1>13, <1>14, <1>15
     DEF ClientStep, WriteStep, ReadStep, BeginPut, BeginDelete, BeginGet, BeginList,
         EndWrite, NotFound, EndOfFile, StatGone, EndList, Fail, Return

LEMMA OpenNext ==
    ASSUME TypedInv, DiskInv, OpenInv, NEW c \in Client, ClientStep(c)
    PROVE  OpenInv'
<1>1. ASSUME NEW d \in Client \ {c} PROVE OpenOk(d)'
  <2>1. work'[d] = work[d] /\ (work[d].at \in Open => work[d].file \in DOMAIN blocks)
    BY OthersWork DEF TypedInv, WorkOk
  <2>2. work[d].at \in Open => Home(d)' = Home(d)
    BY OthersHome DEF Open, Writing, Getting
  <2>3. \A p \in DOMAIN names' : \/ p \in DOMAIN names /\ names'[p] = names[p]
                                 \/ names'[p] \notin DOMAIN blocks
    BY NamesFrame
  <2>4. OpenOk(d)
    BY DEF OpenInv
  <2> QED
    BY <2>1, <2>2, <2>3, <2>4 DEF OpenOk
<1> QED
  BY <1>1, OwnOpen DEF OpenInv

-----------------------------------------------------------------------------
(***************************************************************************)
(* Who writes what, and what a read relies on.                             *)
(***************************************************************************)
\* The step begins a write of a key.
NewWrite(c, k) ==
    /\ work[c].at = "idle"
    /\ \E new \in Content \cup {Absent} : call' = Promise!WriteCall(c, k, new)

\* A client begins a write or a read, goes on with it, or is idle.
LEMMA OwnCallSteps ==
    ASSUME TypedInv, DiskInv, OpenInv, NEW c \in Client, ClientStep(c)
    PROVE  \/ /\ UNCHANGED call
              /\ work'[c].at \in Writing <=> work[c].at \in Writing
              /\ work'[c].at \in Getting <=> work[c].at \in Getting
              /\ work'[c].at \in Listing <=> work[c].at \in Listing
           \/ work'[c].at \in Writing /\ \E k \in Key : NewWrite(c, k)
           \/ /\ work'[c].at \in Getting \cup Listing /\ work[c].at = "idle"
              /\ call'[c].expect = Promise!View
           \/ work'[c].at = "idle"
<1>a. TypedInv' /\ KindOk(c)' /\ KindOk(c) /\ DOMAIN call = Client
  BY TypedNext, CallIs, CallIsNext DEF TypedInv
<1>1. CASE UNCHANGED call
  BY <1>1, <1>a DEF KindOk
<1>2. ASSUME NEW k \in Key, NEW new \in Content \cup {Absent},
             call' = Promise!WriteCall(c, k, new), work[c].at = "idle"
      PROVE  work'[c].at \in Writing /\ NewWrite(c, k)
  <2>1. call'[c].op = "write"
    BY <1>2 DEF Promise!WriteCall, Promise!Overlapped
  <2> QED
    BY <2>1, <1>2, <1>a DEF KindOk, NewWrite
<1>3. ASSUME NEW k \in Key, call' = Promise!GetCall(c, k)
      PROVE  work'[c].at \in Getting /\ call'[c].expect = Promise!View
  <2>1. call'[c].op = "get" /\ call'[c].expect = Promise!View
    BY <1>3, <1>a DEF Promise!GetCall
  <2> QED
    BY <2>1, <1>a DEF KindOk
<1>4. ASSUME call' = Promise!ListCall(c)
      PROVE  work'[c].at \in Listing /\ call'[c].expect = Promise!View
  <2>1. call'[c].op = "list" /\ call'[c].expect = Promise!View
    BY <1>4, <1>a DEF Promise!ListCall
  <2> QED
    BY <2>1, <1>a DEF KindOk
<1>5. ASSUME call' = Promise!Ended(c)
      PROVE  work'[c].at = "idle"
  <2>1. call'[c] = Promise!NoCall
    BY <1>5, <1>a DEF Promise!Ended
  <2> QED
    BY <2>1, <1>a DEF KindOk
<1> QED
  BY <1>1, <1>2, <1>3, <1>4, <1>5, CallSteps

\* Nobody else begins or ends a write.
LEMMA OthersWrites ==
    ASSUME TypedInv, NEW c \in Client, ClientStep(c), NEW d \in Client \ {c}
    PROVE  \A k : Promise!Writes(d, k)' <=> Promise!Writes(d, k)
<1>1. Later(d, call'[d]) /\ KindOk(d)
  BY OthersCall, CallIs
<1>2. CASE work[d].at = "idle"
  BY <1>1, <1>2 DEF KindOk, Later, Promise!Writes, Promise!NoCall
<1>3. CASE work[d].at \in Writing
  BY <1>1, <1>3 DEF KindOk, Later, Promise!Writes, WriteCalls
<1>4. CASE work[d].at \in Getting
  BY <1>1, <1>4 DEF KindOk, Later, Promise!Writes, GetCalls
<1>5. CASE work[d].at \in Listing
  BY <1>1, <1>5 DEF KindOk, Later, Promise!Writes, ListCalls
<1> QED
  BY <1>1, <1>2, <1>3, <1>4, <1>5 DEF KindOk

LEMMA OwnWrites ==
    ASSUME TypedInv, DiskInv, OpenInv, NEW c \in Client, ClientStep(c), NEW k,
           Promise!Writes(c, k)'
    PROVE  Promise!Writes(c, k) \/ NewWrite(c, k)
<1>1. KindOk(c)' /\ KindOk(c) /\ work'[c].at \in Writing
  BY TypedNext, CallIs, CallIsNext DEF KindOk
<1>2. CASE UNCHANGED call
  BY <1>2 DEF Promise!Writes
<1>3. ASSUME NEW j \in Key, NewWrite(c, j) PROVE NewWrite(c, k)
  <2>1. PICK new \in Content \cup {Absent} : call' = Promise!WriteCall(c, j, new)
    BY <1>3 DEF NewWrite
  <2>2. call'[c].key = j
    BY <2>1 DEF Promise!WriteCall, Promise!Overlapped
  <2>3. j = k
    BY <2>2 DEF Promise!Writes
  <2> QED
    BY <1>3, <2>3
<1> QED
  BY <1>1, <1>2, <1>3, OwnCallSteps DEF Writing, Getting, Listing

\* A write that begins is seen by the calls it overlaps.
LEMMA NewWriteSeen ==
    ASSUME TypedInv, NEW c \in Client, NEW k \in Key, NewWrite(c, k)
    PROVE  /\ \A d \in Client \ {c} :
                 /\ work[d].at \in Writing /\ KeyOf(d) = k => ~call'[d].alone
                 /\ work[d].at \in Getting \cup Listing => call'[d].expect[k] = Unknown
           /\ call'[c].key = k
           /\ call'[c].alone => \A d \in Client : ~Promise!Writes(d, k)
<1>1. PICK new \in Content \cup {Absent} : call' = Promise!WriteCall(c, k, new)
  BY DEF NewWrite
<1>2. DOMAIN Promise!Overlapped(k) = Client
  BY DEF Promise!Overlapped
<1>3. \A d \in Client \ {c} : call'[d] = Promise!Overlapped(k)[d]
  BY <1>1, <1>2 DEF Promise!WriteCall
<1>4. call'[c] = [op |-> "write", key |-> k, new |-> new, alone |-> ~Promise!Written(k)]
  BY <1>1, <1>2 DEF Promise!WriteCall
<1>5. call'[c].key = k
  BY <1>4
<1>6. ASSUME call'[c].alone PROVE ~Promise!Written(k)
  <2>1. SUFFICES ASSUME Promise!Written(k) PROVE FALSE
    OBVIOUS
  <2>2. call'[c] = [op |-> "write", key |-> k, new |-> new, alone |-> FALSE]
    BY <1>4, <2>1
  <2> QED
    BY <1>6, <2>2
<1> QED
  BY <1>3, <1>5, <1>6, Overlaps DEF Promise!Written

LEMMA ExpectNext ==
    ASSUME TypedInv, DiskInv, OpenInv, ExpectInv, NEW c \in Client, ClientStep(c)
    PROVE  ExpectInv'
\* What nobody wrote, and no write of which begins, stays.
<1>1. ASSUME NEW k \in Key, ~Promise!Written(k), ~NewWrite(c, k)
      PROVE  ~Promise!Written(k)' /\ Stored(k)' = Stored(k)
  <2>1. \A d \in Client : ~Promise!Writes(d, k)
    BY <1>1 DEF Promise!Written
  <2>2. \A d \in Client : ~Promise!Writes(d, k)'
    BY <1>1, <2>1, OwnWrites, OthersWrites
  <2>3. ~(work[c].at \in Writing /\ k = KeyOf(c))
    BY <2>1, CallIs DEF KindOk
  <2> QED
    BY <2>2, <2>3, StoredStays DEF Promise!Written
<1>2. ASSUME NEW d \in Client \ {c} PROVE ExpectOk(d)'
  <2>1. work'[d] = work[d] /\ Later(d, call'[d]) /\ ExpectOk(d)
    BY OthersWork, OthersCall DEF ExpectInv
  <2>2. ASSUME work[d].at \in Getting \cup Listing, NEW k \in Key,
               call'[d].expect[k] # Unknown
        PROVE  ~Promise!Written(k)' /\ call'[d].expect[k] = Stored(k)'
    <3>1. call'[d].expect[k] = call[d].expect[k]
      BY <2>1, <2>2 DEF Later
    <3>2. ~Promise!Written(k) /\ call[d].expect[k] = Stored(k)
      BY <2>1, <2>2, <3>1 DEF ExpectOk
    <3>3. ~NewWrite(c, k)
      BY <2>2, NewWriteSeen
    <3> QED
      BY <1>1, <3>1, <3>2, <3>3
  <2> QED
    BY <2>1, <2>2 DEF ExpectOk
<1>3. ExpectOk(c)'
  <2>1. ASSUME work'[c].at \in Getting \cup Listing, NEW k \in Key,
               call'[c].expect[k] # Unknown
        PROVE  ~Promise!Written(k)' /\ call'[c].expect[k] = Stored(k)'
    <3>1. KindOk(c)' /\ ExpectOk(c) /\ ~NewWrite(c, k)
      <4>1. KindOk(c)' /\ ExpectOk(c)
        BY TypedNext, CallIsNext DEF ExpectInv
      <4>2. NewWrite(c, k) => call'[c].op = "write"
        BY DEF NewWrite, Promise!WriteCall, Promise!Overlapped
      <4> QED
        BY <2>1, <4>1, <4>2 DEF KindOk, Getting, Listing, Writing
    <3>2. CASE UNCHANGED call /\ work[c].at \in Getting \cup Listing
      <4>1. ~Promise!Written(k) /\ call'[c].expect[k] = Stored(k)
        BY <2>1, <3>1, <3>2 DEF ExpectOk
      <4> QED
        BY <1>1, <3>1, <4>1
    <3>3. CASE call'[c].expect = Promise!View
      <4>1. ~Promise!Written(k) /\ call'[c].expect[k] = Stored(k)
        BY <2>1, <3>3, ViewIs
      <4> QED
        BY <1>1, <3>1, <4>1
    <3> QED
      BY <2>1, <3>2, <3>3, OwnCallSteps DEF Getting, Listing, Writing
  <2> QED
    BY <2>1 DEF ExpectOk
<1> QED
  BY <1>2, <1>3 DEF ExpectInv

-----------------------------------------------------------------------------
(***************************************************************************)
(* How far a write has come.                                               *)
(***************************************************************************)
LEMMA SplitsStart ==
    ASSUME NEW s \in Seq(Data)
    PROVE  Splits(s, <<>>, s)
BY LenProperties DEF Splits

LEMMA SplitsEnd ==
    ASSUME NEW s \in Seq(Data), NEW a \in Seq(Data), Splits(s, a, <<>>)
    PROVE  a = s
<1>1. Len(a) = Len(s) /\ \A i \in 1 .. Len(a) : a[i] = s[i]
  BY LenProperties DEF Splits
<1> QED
  BY <1>1, SeqEqual

LEMMA SplitsStep ==
    ASSUME NEW s \in Seq(Data), NEW a \in Seq(Data), NEW b \in Seq(Data), b # <<>>,
           Splits(s, a, b)
    PROVE  Splits(s, Append(a, Head(b)), Tail(b))
<1> DEFINE a1 == Append(a, Head(b))
           b1 == Tail(b)
<1>1. /\ Head(b) \in Data /\ Head(b) = b[1] /\ Len(b) \in Nat /\ Len(b) # 0
      /\ Len(b1) = Len(b) - 1
      /\ \A i \in 1 .. Len(b1) : b1[i] = b[i + 1]
  BY HeadTailProperties, LenProperties, EmptySeq
<1>2. /\ Len(a) \in Nat /\ Len(a1) = Len(a) + 1
      /\ \A i \in 1 .. Len(a) : a1[i] = a[i]
      /\ a1[Len(a) + 1] = Head(b)
  BY <1>1, AppendProperties, LenProperties
<1>3. /\ Len(a) + Len(b) = Len(s) /\ Len(s) \in Nat
      /\ \A i \in 1 .. Len(a) : a[i] = s[i]
      /\ \A i \in 1 .. Len(b) : b[i] = s[Len(a) + i]
  BY LenProperties DEF Splits
<1> HIDE DEF a1, b1
<1>4. Len(a1) + Len(b1) = Len(s)
  <2>1. \A m, n \in Nat : (m + 1) + (n - 1) = m + n
    OBVIOUS
  <2> QED
    BY <1>1, <1>2, <1>3, <2>1
<1>5. ASSUME NEW i \in 1 .. Len(a1) PROVE a1[i] = s[i]
  <2>1. CASE i \in 1 .. Len(a)
    BY <2>1, <1>2, <1>3
  <2>2. CASE i = Len(a) + 1
    <3>1. b[1] = s[Len(a) + 1]
      BY <1>1, <1>3
    <3> QED
      BY <3>1, <2>2, <1>1, <1>2
  <2> QED
    BY <2>1, <2>2, <1>2
<1>6. ASSUME NEW i \in 1 .. Len(b1) PROVE b1[i] = s[Len(a1) + i]
  <2>1. i + 1 \in 1 .. Len(b) /\ Len(a1) + i = Len(a) + (i + 1)
    BY <1>1, <1>2
  <2>2. b1[i] = b[i + 1] /\ b[i + 1] = s[Len(a) + (i + 1)]
    BY <2>1, <1>1, <1>3
  <2> QED
    BY <2>1, <2>2
<1>7. Splits(s, a1, b1)
  BY <1>4, <1>5, <1>6 DEF Splits
<1> QED
  BY <1>7 DEF a1, b1

\* A write at the end appends.
LEMMA WrittenAtEnd ==
    ASSUME NEW a \in Seq(Data), NEW x \in Data
    PROVE  WrittenAt(a, Len(a) + 1, x) = Append(a, x)
<1>1. Len(a) \in Nat /\ Len(a) + 1 \in Nat \ {0}
  BY LenProperties
<1>2. PICK i \in Nat \ {0} : i = Len(a) + 1
  BY <1>1
<1>3. PICK w : w = WrittenAt(a, i, x)
  OBVIOUS
<1>4. w \in Seq(Data) /\ w[i] = x /\ \A j \in 1 .. Len(a) : j # i => w[j] = a[j]
  <2>1. w \in Seq(Data) /\ w[i] = x
    BY <1>3, WrittenIs
  <2>2. ASSUME NEW j \in 1 .. Len(a), j # i PROVE w[j] = a[j]
    BY <1>3, <2>2, WrittenIs
  <2> QED
    BY <2>1, <2>2
<1>5. Len(w) = IF Len(a) < i THEN i ELSE Len(a)
  BY <1>3, WrittenIs
<1>6. Len(w) = i
  BY <1>1, <1>2, <1>5
<1>7. /\ Append(a, x) \in Seq(Data) /\ Len(Append(a, x)) = Len(a) + 1
      /\ \A j \in 1 .. Len(a) : Append(a, x)[j] = a[j]
      /\ Append(a, x)[Len(a) + 1] = x
  BY AppendProperties
<1>8. \A j \in 1 .. Len(w) : w[j] = Append(a, x)[j]
  BY <1>1, <1>2, <1>4, <1>6, <1>7
<1>9. w = Append(a, x)
  BY <1>2, <1>4, <1>6, <1>7, <1>8, SeqEqual
<1> QED
  BY <1>2, <1>3, <1>9

\* A write that is left alone does not lose what it has done.
LEMMA ProgressStays ==
    ASSUME NEW d \in Client, Progress(d), work'[d] = work[d],
           call'[d].key = call[d].key, call'[d].new = call[d].new,
           Same(Body(KeyOf(d))), Same(Meta(KeyOf(d)))
    PROVE  Progress(d)'
<1>1. KeyOf(d)' = KeyOf(d) /\ Home(d)' = Home(d) /\ Same(Home(d))
  BY DEF KeyOf, Home
<1>2. work[d].at \in {"body", "meta"} =>
         /\ Named(Home(d))' /\ names'[Home(d)] = work[d].file
         /\ blocks'[work[d].file] = work[d].got
  BY <1>1 DEF Progress, Same, Named
<1>3. work[d].at = "body" => Splits(call'[d].new.body, work[d].got, work[d].todo)
  BY DEF Progress
<1>4. work[d].at = "meta" =>
         /\ Named(Body(KeyOf(d)))' /\ Contents(Body(KeyOf(d)))' = call'[d].new.body
         /\ Splits(<<call'[d].new.type>>, work[d].got, work[d].todo)
  BY <1>1 DEF Progress, Same, Named, Contents
<1>5. work[d].at \in {"unlink", "deleted"} => ~Named(Body(KeyOf(d)))'
  BY <1>1 DEF Progress, Same, Named
<1> QED
  BY <1>1, <1>2, <1>3, <1>4, <1>5 DEF Progress

\* A client that goes on with a write nobody overlaps.
LEMMA OwnProgress ==
    ASSUME TypedInv, DiskInv, OpenInv, NEW c \in Client, ClientStep(c),
           work[c].at \in Writing, work'[c].at \in Writing, Progress(c)
    PROVE  Progress(c)'
<1>a. DOMAIN work = Client /\ CallOk(c) /\ WorkOk(c) /\ KindOk(c)
  BY CallIs DEF TypedInv
<1>b. work[c].at \notin Getting \cup Listing \cup {"idle"}
  BY DEF Getting, Listing, Writing
<1>1. CASE OpenBody(c)
  <2>1. /\ work[c].at = "put" /\ call[c].new.body \in Seq(Data)
    BY <1>1, <1>a, ContentIs, OpensBody DEF CallOk, Getting, Listing, Writing
  <2>2. PICK path, todo : /\ path = Body(KeyOf(c)) /\ todo = call[c].new.body
                          /\ OpenFile(c, path, "body", todo)
    BY <1>1, OpensBody
  <2>3. path \in DOMAIN names' /\ blocks'[names'[path]] = <<>>
    <3>1. ASSUME NEW step, OpenFile(c, path, step, todo)
          PROVE  path \in DOMAIN names' /\ blocks'[names'[path]] = <<>>
      <4>1. DOMAIN names' = DOMAIN names \cup {path} /\ blocks'[names'[path]] = <<>>
        BY <3>1, Opened
      <4> QED
        BY <4>1
    <3> QED
      BY <2>2, <3>1
  <2>4. UNCHANGED call /\ work' = [work EXCEPT ![c] = [at |-> "body", file |-> names'[path],
                                          todo |-> todo, got |-> <<>>]]
    BY <2>2 DEF OpenFile, Goes
  <2>5. /\ work'[c].at = "body" /\ work'[c].file = names'[path]
        /\ work'[c].todo = todo /\ work'[c].got = <<>>
    BY <2>4, <1>a
  <2>6. Splits(todo, <<>>, todo)
    BY <2>1, <2>2, SplitsStart
  <2>7. Home(c)' = path /\ call'[c].new.body = todo
    BY <2>2, <2>4, <2>5 DEF Home, KeyOf
  <2> QED
    BY <2>3, <2>5, <2>6, <2>7 DEF Progress, Named
<1>2. CASE OpenMeta(c)
  <2>1. /\ work[c].at = "body" /\ work[c].todo = <<>> /\ work[c].got \in Seq(Data)
        /\ call[c].new.type \in Data /\ call[c].new.body \in Seq(Data)
    BY <1>2, <1>a, ContentIs, OpensMeta DEF CallOk, WorkOk, Open, Getting, Listing, Writing
  <2>2. PICK path, todo : /\ path = Meta(KeyOf(c)) /\ todo = <<call[c].new.type>>
                          /\ OpenFile(c, path, "meta", todo)
    BY <1>2, OpensMeta
  <2>3. /\ path \in DOMAIN names' /\ blocks'[names'[path]] = <<>>
        /\ \A p : p # path => Same(p)
    <3>1. ASSUME NEW step, OpenFile(c, path, step, todo)
          PROVE  /\ path \in DOMAIN names' /\ blocks'[names'[path]] = <<>>
                 /\ \A p : p # path => Same(p)
      <4>1. /\ DOMAIN names' = DOMAIN names \cup {path} /\ blocks'[names'[path]] = <<>>
            /\ \A p : p # path => Same(p)
        BY <3>1, Opened
      <4> QED
        BY <4>1
    <3> QED
      BY <2>2, <3>1
  <2>4. UNCHANGED call /\ work' = [work EXCEPT ![c] = [at |-> "meta", file |-> names'[path],
                                          todo |-> todo, got |-> <<>>]]
    BY <2>2 DEF OpenFile, Goes
  <2>5. /\ work'[c].at = "meta" /\ work'[c].file = names'[path]
        /\ work'[c].todo = todo /\ work'[c].got = <<>>
    BY <2>4, <1>a
  <2>6. Splits(todo, <<>>, todo)
    <3>1. todo \in Seq(Data)
      BY <2>1, <2>2
    <3> QED
      BY <3>1, SplitsStart
  <2>7. Home(c)' = path /\ <<call'[c].new.type>> = todo
    BY <2>2, <2>4, <2>5 DEF Home, KeyOf
  <2>8. /\ Named(Body(KeyOf(c))) /\ Contents(Body(KeyOf(c))) = call[c].new.body
    <3>1. Splits(call[c].new.body, work[c].got, <<>>)
      BY <2>1 DEF Progress
    <3>2. work[c].got = call[c].new.body
      BY <2>1, <3>1, SplitsEnd
    <3>3. /\ Named(Body(KeyOf(c))) /\ names[Body(KeyOf(c))] = work[c].file
          /\ blocks[work[c].file] = work[c].got
      BY <2>1 DEF Progress, Home
    <3> QED
      BY <3>2, <3>3 DEF Contents
  <2>9. Same(Body(KeyOf(c)))
    BY <2>2, <2>3, PathsDiffer
  <2>10. /\ Named(Body(KeyOf(c)))' /\ Contents(Body(KeyOf(c)))' = call'[c].new.body
    BY <2>4, <2>8, <2>9 DEF Same, Named, Contents, KeyOf
  <2> QED
    BY <2>3, <2>5, <2>6, <2>7, <2>10 DEF Progress, Named
<1>3. CASE WriteBlock(c)
  <2>1. PICK file, got, todo : file = work[c].file /\ got = work[c].got /\ todo = work[c].todo
    OBVIOUS
  <2>2. /\ names' = names /\ UNCHANGED call /\ work[c].at \in {"body", "meta"}
        /\ got \in Seq(Data) /\ todo \in Seq(Data) /\ todo # <<>> /\ Head(todo) \in Data
        /\ blocks'[file] = WrittenAt(blocks[file], Len(got) + 1, Head(todo))
        /\ \A p : p # Home(c) => Same(p)
    BY <1>3, <2>1, Wrote
  <2>3. work' = [work EXCEPT ![c] = [at |-> work[c].at, file |-> file,
                                     todo |-> Tail(todo), got |-> Append(got, Head(todo))]]
    BY <1>3, <2>1 DEF WriteBlock, Goes
  <2>4. /\ work'[c].at = work[c].at /\ work'[c].file = file
        /\ work'[c].todo = Tail(todo) /\ work'[c].got = Append(got, Head(todo))
    BY <2>3, <1>a
  <2>5. Home(c)' = Home(c) /\ KeyOf(c)' = KeyOf(c) /\ call'[c].new = call[c].new
    BY <2>2, <2>4 DEF Home, KeyOf
  <2>6. Named(Home(c)) /\ names[Home(c)] = file /\ blocks[file] = got
    BY <2>1, <2>2 DEF Progress
  <2>7. blocks'[file] = Append(got, Head(todo))
    BY <2>2, <2>6, WrittenAtEnd
  <2>8. CASE work[c].at = "body"
    <3>1. Splits(call[c].new.body, got, todo) /\ call[c].new.body \in Seq(Data)
      BY <1>a, <2>1, <2>8, ContentIs DEF Progress, CallOk, Getting, Listing
    <3>2. Splits(call[c].new.body, Append(got, Head(todo)), Tail(todo))
      BY <2>2, <3>1, SplitsStep
    <3> QED
      BY <2>2, <2>4, <2>5, <2>6, <2>7, <2>8, <3>2 DEF Progress, Named
  <2>9. CASE work[c].at = "meta"
    <3>1. Splits(<<call[c].new.type>>, got, todo) /\ call[c].new.type \in Data
      BY <1>a, <2>1, <2>9, ContentIs DEF Progress, CallOk, Getting, Listing
    <3>2. Splits(<<call[c].new.type>>, Append(got, Head(todo)), Tail(todo))
      <4>1. <<call[c].new.type>> \in Seq(Data)
        BY <3>1
      <4> QED
        BY <2>2, <3>1, <4>1, SplitsStep
    <3>3. Same(Body(KeyOf(c)))
      BY <2>2, <2>9, PathsDiffer DEF Home
    <3>4. /\ Named(Body(KeyOf(c)))' /\ Contents(Body(KeyOf(c)))' = call'[c].new.body
      BY <2>5, <2>9, <3>3 DEF Same, Named, Contents, Progress
    <3> QED
      BY <2>2, <2>4, <2>5, <2>6, <2>7, <2>9, <3>2, <3>4 DEF Progress, Named
  <2> QED
    BY <2>2, <2>8, <2>9
<1>4. CASE UnlinkBody(c)
  <2>1. work'[c].at = "unlink" /\ UNCHANGED call
    BY <1>4, <1>a DEF UnlinkBody, Unlink, Goes
  <2>2. PICK path : path = Body(KeyOf(c))
    OBVIOUS
  <2>3. path \notin DOMAIN names'
    BY <1>4, <2>2 DEF UnlinkBody, Unlink
  <2> QED
    BY <2>1, <2>2, <2>3 DEF Progress, Named, KeyOf
<1>5. CASE UnlinkMeta(c)
  <2>1. work[c].at = "unlink" /\ work'[c].at = "deleted" /\ UNCHANGED call
    BY <1>5, <1>a DEF UnlinkMeta, Unlink, Goes, At
  <2>2. DOMAIN names' \subseteq DOMAIN names
    BY <1>5 DEF UnlinkMeta, Unlink
  <2> QED
    BY <2>1, <2>2 DEF Progress, Named, KeyOf
<1>6. CASE End(c)
  BY <1>6, EndsAt DEF Writing
<1> QED
  BY <1>1, <1>2, <1>3, <1>4, <1>5, <1>6, <1>b
     DEF ClientStep, WriteStep, ReadStep, BeginPut, BeginDelete, BeginGet, BeginList,
         Begin, ObjectExists, At, EndWrite, NotFound, EndOfFile, StatGone, EndList, Fail,
         Return, OpenForReading, ReadBlock, ListKeys, Stat, ReadSidecar, StatAgain,
         Getting, Listing

LEMMA AloneNext ==
    ASSUME TypedInv, DiskInv, OpenInv, AloneInv, NEW c \in Client, ClientStep(c)
    PROVE  AloneInv'
<1>1. ASSUME NEW d \in Client \ {c} PROVE AloneOk(d)'
  <2>1. /\ work'[d] = work[d] /\ Later(d, call'[d]) /\ AloneOk(d) /\ KindOk(d)
    BY OthersWork, OthersCall, CallIs DEF AloneInv
  <2>2. SUFFICES ASSUME work[d].at \in Writing, call'[d].alone
                 PROVE  /\ Progress(d)'
                        /\ \A e \in Client : Promise!Writes(e, KeyOf(d))' => e = d
    BY <2>1 DEF AloneOk
  <2>3. /\ call'[d].key = call[d].key /\ call'[d].new = call[d].new /\ KeyOf(d)' = KeyOf(d)
        /\ Progress(d) /\ \A e \in Client : Promise!Writes(e, KeyOf(d)) => e = d
        /\ KeyOf(d) \in Key
    BY <2>1, <2>2 DEF Later, AloneOk, KeyOf, KindOk
  <2>4. PICK k \in Key : k = KeyOf(d)
    BY <2>3
  <2>5. ~Promise!Writes(c, k)
    BY <2>3, <2>4
  <2>6. Same(Body(k)) /\ Same(Meta(k))
    BY <2>5, CallIs, StoredStays DEF KindOk
  <2>7. Progress(d)'
    BY <2>1, <2>3, <2>4, <2>6, ProgressStays
  <2>8. ASSUME NEW e \in Client, Promise!Writes(e, k)' PROVE e = d
    <3>1. CASE e = c
      <4>1. NewWrite(c, k)
        BY <2>5, <2>8, <3>1, OwnWrites
      <4> QED
        BY <2>2, <2>4, <4>1, NewWriteSeen
    <3>2. CASE e # c
      <4>1. Promise!Writes(e, k)
        BY <2>8, <3>2, OthersWrites
      <4> QED
        BY <2>3, <2>4, <4>1
    <3> QED
      BY <3>1, <3>2
  <2> QED
    BY <2>3, <2>4, <2>7, <2>8 DEF Promise!Writes
<1>2. AloneOk(c)'
  <2>1. SUFFICES ASSUME work'[c].at \in Writing, call'[c].alone
                 PROVE  /\ Progress(c)'
                        /\ \A e \in Client : Promise!Writes(e, KeyOf(c))' => e = c
    BY DEF AloneOk
  <2>2. CASE UNCHANGED call /\ work[c].at \in Writing
    <3>1. Progress(c) /\ \A e \in Client : Promise!Writes(e, KeyOf(c)) => e = c
      BY <2>1, <2>2 DEF AloneInv, AloneOk
    <3>2. Progress(c)'
      BY <2>1, <2>2, <3>1, OwnProgress
    <3> QED
      BY <2>2, <3>1, <3>2 DEF KeyOf, Promise!Writes
  <2>3. ASSUME NEW k \in Key, NewWrite(c, k)
        PROVE  /\ Progress(c)'
               /\ \A e \in Client : Promise!Writes(e, KeyOf(c))' => e = c
    <3>1. KeyOf(c)' = k /\ \A e \in Client : ~Promise!Writes(e, k)
      BY <2>1, <2>3, NewWriteSeen DEF KeyOf
    <3>2. \A e \in Client : Promise!Writes(e, k)' => e = c
      BY <3>1, OthersWrites
    <3>3. work'[c].at \in {"put", "delete"}
      BY <2>1, <2>3, BeginsAt DEF NewWrite, Writing
    <3>4. Progress(c)'
      BY <3>3 DEF Progress
    <3> QED
      BY <3>1, <3>2, <3>4 DEF Promise!Writes
  <2> QED
    BY <2>1, <2>2, <2>3, OwnCallSteps DEF Writing, Getting, Listing
<1> QED
  BY <1>1, <1>2 DEF AloneInv

-----------------------------------------------------------------------------
(***************************************************************************)
(* How far a read has come.                                                *)
(***************************************************************************)
\* What a read of another client still relies on stays as it is.
LEMMA OthersExpect ==
    ASSUME TypedInv, DiskInv, OpenInv, ExpectInv, NEW c \in Client, ClientStep(c),
           NEW d \in Client \ {c}, work[d].at \in Getting \cup Listing,
           NEW k \in Key, call'[d].expect[k] # Unknown
    PROVE  /\ call'[d].expect[k] = call[d].expect[k]
           /\ Same(Body(k)) /\ Same(Meta(k))
<1>1. Later(d, call'[d]) /\ ExpectOk(d)
  BY OthersCall DEF ExpectInv
<1>2. call'[d].expect[k] = call[d].expect[k]
  BY <1>1 DEF Later
<1>3. ~Promise!Writes(c, k)
  BY <1>1, <1>2 DEF ExpectOk, Promise!Written
<1>4. ~(work[c].at \in Writing /\ k = KeyOf(c))
  BY <1>3, CallIs DEF KindOk
<1> QED
  BY <1>2, <1>4, StoredStays

LEMMA OwnGet ==
    ASSUME TypedInv, DiskInv, OpenInv, NEW c \in Client, ClientStep(c), GetOk(c)
    PROVE  GetOk(c)'
<1>a. DOMAIN work = Client /\ WorkOk(c) /\ KindOk(c)
  BY CallIs DEF TypedInv
<1>1. ASSUME work'[c].at # "read" PROVE GetOk(c)'
  BY <1>1 DEF GetOk
<1>2. CASE work[c].at = "idle"
  BY <1>1, <1>2, BeginsAt
<1>3. CASE OpenForReading(c)
  <2>1. PICK path : path = Body(KeyOf(c))
    OBVIOUS
  <2>2. /\ path \in DOMAIN names /\ UNCHANGED <<names, blocks, call>>
        /\ work' = [work EXCEPT ![c] = [at |-> "read", file |-> names[path],
                                        todo |-> <<>>, got |-> <<>>]]
    BY <1>3, <2>1 DEF OpenForReading, Goes, disk, Named
  <2>3. work'[c].at = "read" /\ work'[c].file = names[path] /\ work'[c].got = <<>>
    BY <2>2, <1>a
  <2>4. Home(c)' = path
    BY <2>1, <2>2, <2>3 DEF Home, KeyOf
  <2>5. blocks[names[path]] \in Seq(Data)
    BY <2>2 DEF DiskInv
  <2>6. Len(<<>>) = 0 /\ Len(blocks[names[path]]) \in Nat
    BY <2>5, LenProperties
  <2> QED
    BY <2>2, <2>3, <2>4, <2>6 DEF GetOk, Named
<1>4. CASE ReadBlock(c)
  <2>1. PICK file, got, next : /\ file = work[c].file /\ got = work[c].got
                               /\ next = blocks[file][Len(got) + 1]
    OBVIOUS
  <2>2. /\ work[c].at = "read" /\ UNCHANGED <<names, blocks, call>>
        /\ ~(Len(blocks[file]) <= Len(got))
        /\ work' = [work EXCEPT ![c] = [at |-> "read", file |-> file,
                                        todo |-> <<>>, got |-> Append(got, next)]]
    BY <1>4, <2>1 DEF ReadBlock, Goes, disk, At, AtEnd
  <2>3. work'[c].at = "read" /\ work'[c].file = file /\ work'[c].got = Append(got, next)
    BY <2>2, <1>a
  <2>4. /\ got \in Seq(Data) /\ blocks[file] \in Seq(Data)
    BY <2>1, <2>2, <1>a DEF WorkOk, Open, DiskInv
  <2>5. Len(got) \in Nat /\ Len(blocks[file]) \in Nat /\ Len(got) + 1 \in 1 .. Len(blocks[file])
    BY <2>2, <2>4, LenProperties
  <2>6. next \in Data
    BY <2>1, <2>4, <2>5, ElementOfSeq
  <2>7. /\ Len(Append(got, next)) = Len(got) + 1
        /\ \A i \in 1 .. Len(got) : Append(got, next)[i] = got[i]
        /\ Append(got, next)[Len(got) + 1] = next
    BY <2>4, <2>6, AppendProperties
  <2>8. Home(c)' = Home(c) /\ KeyOf(c)' = KeyOf(c)
    BY <2>2, <2>3 DEF Home, KeyOf
  <2>9. ASSUME call[c].expect[KeyOf(c)] # Unknown
        PROVE  /\ Named(Home(c)) /\ names[Home(c)] = file
               /\ Len(Append(got, next)) <= Len(blocks[file])
               /\ \A i \in 1 .. Len(Append(got, next)) : Append(got, next)[i] = blocks[file][i]
    <3>1. /\ Named(Home(c)) /\ names[Home(c)] = file
          /\ \A i \in 1 .. Len(got) : got[i] = blocks[file][i]
      BY <2>1, <2>2, <2>9 DEF GetOk
    <3>2. ASSUME NEW i \in 1 .. Len(Append(got, next))
          PROVE  Append(got, next)[i] = blocks[file][i]
      <4>1. i \in 1 .. Len(got) \/ i = Len(got) + 1
        BY <2>5, <2>7
      <4> QED
        BY <4>1, <2>1, <2>7, <3>1
    <3> QED
      BY <2>5, <2>7, <3>1, <3>2
  <2> QED
    BY <2>2, <2>3, <2>8, <2>9 DEF GetOk, Named
<1>5. CASE OpenBody(c) \/ OpenMeta(c)
  <2>1. work'[c].at \in {"body", "meta"}
    BY <1>5, <1>a DEF OpenBody, OpenMeta, OpenFile, Goes
  <2> QED
    BY <2>1, <1>1
<1>6. CASE WriteBlock(c)
  <2>1. work'[c].at \in {"body", "meta"}
    BY <1>6, <1>a DEF WriteBlock, Goes
  <2> QED
    BY <2>1, <1>1
<1>7. CASE UnlinkBody(c) \/ UnlinkMeta(c)
  <2>1. work'[c].at \in {"unlink", "deleted"}
    BY <1>7, <1>a DEF UnlinkBody, UnlinkMeta, Unlink, Goes
  <2> QED
    BY <2>1, <1>1
<1>8. CASE ListKeys(c) \/ Stat(c) \/ ReadSidecar(c) \/ StatAgain(c)
  <2>1. work'[c].at \in {"stat", "sidecar", "restat"}
    BY <1>8, <1>a DEF ListKeys, Stat, ReadSidecar, StatAgain, Goes
  <2> QED
    BY <2>1, <1>1
<1>9. CASE End(c)
  BY <1>9, <1>1, EndsAt
<1> QED
  BY <1>2, <1>3, <1>4, <1>5, <1>6, <1>7, <1>8, <1>9
     DEF ClientStep, WriteStep, ReadStep, BeginPut, BeginDelete, BeginGet, BeginList,
         Begin, ObjectExists, At, EndWrite, NotFound, EndOfFile, StatGone, EndList, Fail,
         Return

LEMMA GetNext ==
    ASSUME TypedInv, DiskInv, OpenInv, ExpectInv, GetInv, NEW c \in Client, ClientStep(c)
    PROVE  GetInv'
<1>1. ASSUME NEW d \in Client \ {c} PROVE GetOk(d)'
  <2>1. work'[d] = work[d] /\ GetOk(d) /\ KindOk(d)
    BY OthersWork, CallIs DEF GetInv
  <2>2. SUFFICES ASSUME work[d].at = "read", (call[d].expect[KeyOf(d)] # Unknown)'
                 PROVE  GetOk(d)'
    BY <2>1 DEF GetOk
  <2>3. KeyOf(d)' = KeyOf(d) /\ Home(d)' = Home(d) /\ KeyOf(d) \in Key
    BY <2>1, <2>2, OthersHome DEF KindOk, Getting
  <2>4. PICK k \in Key : k = KeyOf(d)
    BY <2>3
  <2>5. call[d].expect[k] # Unknown /\ Same(Body(k))
    BY <2>2, <2>3, <2>4, OthersExpect DEF Getting
  <2>6. /\ Named(Body(k)) /\ names[Body(k)] = work[d].file
        /\ Len(work[d].got) <= Len(blocks[work[d].file])
        /\ \A i \in 1 .. Len(work[d].got) : work[d].got[i] = blocks[work[d].file][i]
    BY <2>1, <2>2, <2>4, <2>5 DEF GetOk, Home
  <2>7. Body(k) \in DOMAIN names' /\ names'[Body(k)] = work[d].file
        /\ blocks'[work[d].file] = blocks[work[d].file]
    BY <2>5, <2>6 DEF Same, Named
  <2>8. Home(d)' = Body(k)
    BY <2>2, <2>3, <2>4 DEF Home
  <2> QED
    BY <2>1, <2>6, <2>7, <2>8 DEF GetOk, Named
<1> QED
  BY <1>1, OwnGet DEF GetInv

\* What a listing does not touch stays listed as it is.
LEMMA ListedStays ==
    ASSUME NEW d \in Client, NEW k \in Key, ListedOk(d, k), work'[d] = work[d],
           call'[d].expect[k] = call[d].expect[k]
    PROVE  ListedOk(d, k)'
BY DEF ListedOk, KeyAtHand

LEMMA OwnList ==
    ASSUME TypedInv, DiskInv, OpenInv, NEW c \in Client, ClientStep(c),
           ExpectOk(c), ListOk(c)
    PROVE  ListOk(c)'
<1>a. DOMAIN work = Client /\ WorkOk(c) /\ KindOk(c)
  BY CallIs DEF TypedInv
<1>1. ASSUME work'[c].at \notin {"stat", "sidecar", "restat"} PROVE ListOk(c)'
  BY <1>1 DEF ListOk, Listing
<1>2. CASE work[c].at = "idle"
  BY <1>1, <1>2, BeginsAt
\* What is expected is what is there.
<1>b. ASSUME work[c].at \in Listing, NEW k \in Key, call[c].expect[k] # Unknown
      PROVE  /\ call[c].expect[k] = Stored(k)
             /\ Stored(k) = Absent <=> ~Named(Body(k))
             /\ Stored(k) # Absent =>
                   /\ Stored(k).body = Contents(Body(k))
                   /\ Stored(k).type = TypeOf(k)
  BY <1>b, StoredIs DEF ExpectOk
\* It is enough to look at one key that nobody wrote.
<1>c. ASSUME UNCHANGED call,
             ASSUME NEW k \in Key, call[c].expect[k] # Unknown PROVE ListedOk(c, k)'
      PROVE  ListOk(c)'
  BY <1>c DEF ListOk
<1>3. CASE ListKeys(c)
  <2>1. /\ work[c].at = "list" /\ UNCHANGED <<names, blocks, call>>
        /\ work' = [work EXCEPT ![c] = [at |-> "stat", file |-> NoFile,
                       todo |-> {k \in Key : Named(Body(k))}, got |-> <<>>]]
    BY <1>3 DEF ListKeys, Goes, disk, At
  <2>2. /\ work'[c].at = "stat" /\ work'[c].got = <<>>
        /\ work'[c].todo = {k \in Key : Named(Body(k))}
    BY <2>1, <1>a
  <2>3. ASSUME NEW k \in Key, call[c].expect[k] # Unknown PROVE ListedOk(c, k)'
    <3>1. call[c].expect[k] = Absent <=> ~Named(Body(k))
      BY <1>b, <2>1, <2>3 DEF Listing
    <3>2. k \notin DOMAIN work'[c].got
      BY <2>2
    <3> QED
      BY <2>1, <2>2, <3>1, <3>2 DEF ListedOk
  <2> QED
    BY <2>1, <2>3, <1>c
<1>4. CASE Stat(c)
  <2>1. PICK h, todo, got, entry :
            /\ h = KeyAtHand(c) /\ todo = work[c].todo /\ got = work[c].got
            /\ entry = [size |-> Len(Contents(Body(h))), type |-> Default]
    OBVIOUS
  <2>2. /\ work[c].at = "stat" /\ todo # {} /\ UNCHANGED <<names, blocks, call>>
        /\ work' = [work EXCEPT ![c] = [at |-> "sidecar", file |-> NoFile,
                       todo |-> todo, got |-> With(got, h, entry)]]
    BY <1>4, <2>1 DEF Stat, Goes, disk, At
  <2>3. /\ work'[c].at = "sidecar" /\ work'[c].got = With(got, h, entry)
        /\ work'[c].todo = todo
    BY <2>2, <1>a
  <2>4. h \in todo /\ KeyAtHand(c)' = h
    <3>1. todo \in SUBSET Key
      BY <1>a, <2>1, <2>2 DEF WorkOk, Listing
    <3>2. FirstOf(todo) \in todo
      BY <2>2, <3>1, FirstIs
    <3> QED
      BY <2>1, <2>3, <3>2 DEF KeyAtHand
  <2>5. ASSUME NEW k \in Key, call[c].expect[k] # Unknown PROVE ListedOk(c, k)'
    <3>1. /\ call[c].expect[k] = Stored(k)
          /\ Stored(k) # Absent => Stored(k).body = Contents(Body(k))
      BY <1>b, <2>2, <2>5 DEF Listing
    <3>2. ListedOk(c, k)
      BY <2>2, <2>5 DEF ListOk, Listing
    <3>3. CASE k = h
      <4>1. With(got, h, entry)[h] = entry /\ h \in DOMAIN With(got, h, entry)
        BY DEF With
      <4>2. Stored(k) # Absent
        BY <3>1, <3>2, <3>3, <2>1, <2>4 DEF ListedOk
      <4>3. entry = [size |-> Len(Stored(k).body), type |-> Default]
        BY <2>1, <3>1, <3>3, <4>2
      <4> QED
        BY <2>2, <2>3, <2>4, <3>1, <3>3, <4>1, <4>2, <4>3 DEF ListedOk
    <3>4. CASE k # h
      <4>1. /\ k \in DOMAIN With(got, h, entry) <=> k \in DOMAIN got
            /\ k \in DOMAIN got => With(got, h, entry)[k] = got[k]
        BY <3>4 DEF With
      <4> QED
        BY <2>1, <2>2, <2>3, <2>4, <3>2, <3>4, <4>1 DEF ListedOk
    <3> QED
      BY <3>3, <3>4
  <2> QED
    BY <2>2, <2>5, <1>c
<1>5. CASE ReadSidecar(c)
  <2>1. PICK h, todo, got : h = KeyAtHand(c) /\ todo = work[c].todo /\ got = work[c].got
    OBVIOUS
  <2>2. /\ work[c].at = "sidecar" /\ UNCHANGED <<names, blocks, call>>
    BY <1>5 DEF ReadSidecar, disk, At
  <2>3. h \in todo /\ h \in Key
    <3>1. todo \in SUBSET Key /\ todo # {}
      BY <1>a, <2>1, <2>2 DEF WorkOk, Listing
    <3>2. FirstOf(todo) \in todo
      BY <3>1, FirstIs
    <3> QED
      BY <2>1, <3>1, <3>2 DEF KeyAtHand
  <2>4. CASE Named(Meta(h)) /\ Contents(Meta(h)) # <<>>
    <3>1. PICK entry : entry = [size |-> got[h].size, type |-> Contents(Meta(h))[1]]
      OBVIOUS
    <3>2. work' = [work EXCEPT ![c] = [at |-> "stat", file |-> NoFile,
                       todo |-> todo \ {h}, got |-> With(got, h, entry)]]
      BY <1>5, <2>1, <2>4, <3>1 DEF ReadSidecar, Goes, Others
    <3>3. /\ work'[c].at = "stat" /\ work'[c].got = With(got, h, entry)
          /\ work'[c].todo = todo \ {h}
      BY <3>2, <1>a
    <3>4. TypeOf(h) = Contents(Meta(h))[1]
      <4>1. Contents(Meta(h)) \in Seq(Data) /\ Len(Contents(Meta(h))) <= 1
        BY <2>3, <2>4 DEF DiskInv, Named, Contents
      <4>2. PICK sidecar \in Seq(Data) : sidecar = Contents(Meta(h))
        BY <4>1
      <4>3. Len(sidecar) \in Nat /\ Len(sidecar) # 0 /\ Len(sidecar) <= 1
        BY <2>4, <4>1, <4>2, LenProperties, EmptySeq
      <4>4. Len(sidecar) = 1
        BY <4>3
      <4> QED
        BY <2>4, <4>2, <4>4 DEF TypeOf
    <3>5. ASSUME NEW k \in Key, call[c].expect[k] # Unknown PROVE ListedOk(c, k)'
      <4>1. /\ call[c].expect[k] = Stored(k)
            /\ Stored(k) # Absent => Stored(k).type = TypeOf(k)
        BY <1>b, <2>2, <3>5 DEF Listing
      <4>2. ListedOk(c, k)
        BY <2>2, <3>5 DEF ListOk, Listing
      <4>3. CASE k = h
        <5>1. With(got, h, entry)[h] = entry /\ h \in DOMAIN With(got, h, entry)
          BY DEF With
        <5>2. Stored(k) # Absent
          BY <4>1, <4>2, <4>3, <2>1, <2>3 DEF ListedOk
        <5>3. got[h] = [size |-> Len(Stored(k).body), type |-> Default]
          BY <4>1, <4>2, <4>3, <5>2, <2>1, <2>2 DEF ListedOk
        <5>4. entry = Entry(Stored(k))
          BY <3>1, <3>4, <4>1, <4>3, <5>2, <5>3 DEF Entry
        <5> QED
          BY <2>2, <3>3, <4>1, <4>3, <5>1, <5>2, <5>4 DEF ListedOk
      <4>4. CASE k # h
        <5>1. /\ k \in DOMAIN With(got, h, entry) <=> k \in DOMAIN got
              /\ k \in DOMAIN got => With(got, h, entry)[k] = got[k]
          BY <4>4 DEF With
        <5> QED
          BY <2>1, <2>2, <3>3, <4>2, <4>4, <5>1 DEF ListedOk
      <4> QED
        BY <4>3, <4>4
    <3> QED
      BY <2>2, <3>5, <1>c
  <2>5. CASE ~(Named(Meta(h)) /\ Contents(Meta(h)) # <<>>)
    <3>2. work' = [work EXCEPT ![c] = [at |-> "restat", file |-> NoFile,
                       todo |-> todo, got |-> got]]
      BY <1>5, <2>1, <2>5 DEF ReadSidecar, Goes
    <3>3. /\ work'[c].at = "restat" /\ work'[c].got = got /\ work'[c].todo = todo
      BY <3>2, <1>a
    <3>4. TypeOf(h) = Default
      <4>1. Contents(Meta(h)) = <<>> => Len(Contents(Meta(h))) # 1
        OBVIOUS
      <4> QED
        BY <2>5, <4>1 DEF TypeOf
    <3>5. KeyAtHand(c)' = h
      BY <2>1, <3>3 DEF KeyAtHand
    <3>6. ASSUME NEW k \in Key, call[c].expect[k] # Unknown PROVE ListedOk(c, k)'
      <4>1. /\ call[c].expect[k] = Stored(k)
            /\ Stored(k) # Absent => Stored(k).type = TypeOf(k)
        BY <1>b, <2>2, <3>6 DEF Listing
      <4>2. ListedOk(c, k)
        BY <2>2, <3>6 DEF ListOk, Listing
      <4> QED
        BY <2>1, <2>2, <3>3, <3>4, <3>5, <4>1, <4>2 DEF ListedOk
    <3> QED
      BY <2>2, <3>6, <1>c
  <2> QED
    BY <2>4, <2>5
<1>6. CASE StatAgain(c)
  <2>1. PICK h, todo, got : h = KeyAtHand(c) /\ todo = work[c].todo /\ got = work[c].got
    OBVIOUS
  <2>2. /\ work[c].at = "restat" /\ UNCHANGED <<names, blocks, call>>
        /\ work' = [work EXCEPT ![c] = [at |-> "stat", file |-> NoFile,
                       todo |-> todo \ {h}, got |-> got]]
    BY <1>6, <2>1 DEF StatAgain, disk, At, Goes, Others
  <2>3. /\ work'[c].at = "stat" /\ work'[c].got = got /\ work'[c].todo = todo \ {h}
    BY <2>2, <1>a
  <2>4. ASSUME NEW k \in Key, call[c].expect[k] # Unknown PROVE ListedOk(c, k)'
    <3>1. ListedOk(c, k)
      BY <2>2, <2>4 DEF ListOk, Listing
    <3>2. call[c].expect[k] # Absent /\ k = h => got[k] = Entry(call[c].expect[k])
      BY <2>1, <2>2, <3>1 DEF ListedOk, Entry
    <3> QED
      BY <2>1, <2>2, <2>3, <3>1, <3>2 DEF ListedOk
  <2> QED
    BY <2>2, <2>4, <1>c
<1>7. CASE OpenBody(c) \/ OpenMeta(c)
  <2>1. work'[c].at \in {"body", "meta"}
    BY <1>7, <1>a DEF OpenBody, OpenMeta, OpenFile, Goes
  <2> QED
    BY <2>1, <1>1
<1>8. CASE WriteBlock(c)
  <2>1. work'[c].at \in {"body", "meta"}
    BY <1>8, <1>a DEF WriteBlock, Goes
  <2> QED
    BY <2>1, <1>1
<1>9. CASE UnlinkBody(c) \/ UnlinkMeta(c)
  <2>1. work'[c].at \in {"unlink", "deleted"}
    BY <1>9, <1>a DEF UnlinkBody, UnlinkMeta, Unlink, Goes
  <2> QED
    BY <2>1, <1>1
<1>10. CASE OpenForReading(c) \/ ReadBlock(c)
  <2>1. work'[c].at = "read"
    BY <1>10, <1>a DEF OpenForReading, ReadBlock, Goes
  <2> QED
    BY <2>1, <1>1
<1>11. CASE End(c)
  BY <1>11, <1>1, EndsAt
<1> QED
  BY <1>2, <1>3, <1>4, <1>5, <1>6, <1>7, <1>8, <1>9, <1>10, <1>11
     DEF ClientStep, WriteStep, ReadStep, BeginPut, BeginDelete, BeginGet, BeginList,
         Begin, ObjectExists, At, EndWrite, NotFound, EndOfFile, StatGone, EndList, Fail,
         Return

LEMMA ListNext ==
    ASSUME TypedInv, DiskInv, OpenInv, ExpectInv, ListInv, NEW c \in Client, ClientStep(c)
    PROVE  ListInv'
<1>1. ASSUME NEW d \in Client \ {c} PROVE ListOk(d)'
  <2>1. work'[d] = work[d] /\ ListOk(d)
    BY OthersWork DEF ListInv
  <2>2. ASSUME work[d].at \in Listing \ {"list"}, NEW k \in Key, call'[d].expect[k] # Unknown
        PROVE  ListedOk(d, k)'
    <3>1. call'[d].expect[k] = call[d].expect[k]
      BY <2>2, OthersExpect
    <3>2. ListedOk(d, k)
      BY <2>1, <2>2, <3>1 DEF ListOk
    <3> QED
      BY <2>1, <3>1, <3>2, ListedStays
  <2> QED
    BY <2>1, <2>2 DEF ListOk
<1>2. ListOk(c)'
  BY OwnList DEF ListInv, ExpectInv
<1> QED
  BY <1>1, <1>2 DEF ListInv

-----------------------------------------------------------------------------
LEMMA StorageStart == LocalInit => StorageInv
<1> SUFFICES ASSUME LocalInit PROVE StorageInv
  OBVIOUS
<1>1. /\ DOMAIN names = {} /\ DOMAIN blocks = {}
      /\ DOMAIN work = Client /\ DOMAIN call = Client
      /\ \A c \in Client : work[c].at = "idle" /\ call[c] = Promise!NoCall
  BY DEF LocalInit, Idle
<1>2. TypedInv
  BY <1>1 DEF TypedInv, CallOk, WorkOk, Open, Listing
<1>3. DiskInv
  BY <1>1 DEF DiskInv, Named
<1>4. OpenInv /\ AloneInv /\ ExpectInv /\ GetInv /\ ListInv
  BY <1>1 DEF OpenInv, OpenOk, AloneInv, AloneOk, ExpectInv, ExpectOk, GetInv, GetOk,
              ListInv, ListOk, Open, Writing, Getting, Listing
<1> QED
  BY <1>2, <1>3, <1>4 DEF StorageInv

LEMMA StorageNext == StorageInv /\ [LocalNext]_localVars => StorageInv'
<1> SUFFICES ASSUME StorageInv, [LocalNext]_localVars PROVE StorageInv'
  OBVIOUS
<1> USE DEF StorageInv
<1>1. ASSUME NEW c \in Client, ClientStep(c) PROVE StorageInv'
  BY <1>1, TypedNext, DiskNext, OpenNext, AloneNext, ExpectNext, GetNext, ListNext
<1>2. CASE UNCHANGED localVars
  <2>1. UNCHANGED <<names, blocks, work, call>>
    BY <1>2 DEF localVars, disk
  <2>2. TypedInv'
    BY <2>1 DEF TypedInv, CallOk, WorkOk
  <2>3. DiskInv'
    BY <2>1 DEF DiskInv, Named, Contents
  <2>4. \A k : Stored(k)' = Stored(k)
    BY <2>1 DEF Stored, TypeOf, Named, Contents
  <2>5. \A d, k : Promise!Writes(d, k)' = Promise!Writes(d, k)
    BY <2>1 DEF Promise!Writes
  <2>6. \A d : KeyOf(d)' = KeyOf(d) /\ Home(d)' = Home(d) /\ KeyAtHand(d)' = KeyAtHand(d)
    BY <2>1 DEF KeyOf, Home, KeyAtHand
  <2>7. OpenInv'
    BY <2>1, <2>6 DEF OpenInv, OpenOk
  <2>8. AloneInv'
    BY <2>1, <2>5, <2>6 DEF AloneInv, AloneOk, Progress, Named, Contents
  <2>9. ExpectInv'
    BY <2>1, <2>4, <2>5 DEF ExpectInv, ExpectOk, Promise!Written
  <2>10. GetInv'
    BY <2>1, <2>6 DEF GetInv, GetOk, Named
  <2>11. ListInv'
    BY <2>1, <2>6 DEF ListInv, ListOk, ListedOk
  <2> QED
    BY <2>2, <2>3, <2>7, <2>8, <2>9, <2>10, <2>11
<1> QED
  BY <1>1, <1>2 DEF LocalNext

\* In every state of a storage in a local directory, whatever its clients do:
\* files, names and open files fit together, and no client has lost its place.
THEOREM StorageInvariant == LocalSpec => []StorageInv
BY StorageStart, StorageNext, PTL DEF LocalSpec

-----------------------------------------------------------------------------
(***************************************************************************)
(* Each step is one of the promise.                                        *)
(***************************************************************************)
StoredAll == [k \in Key |-> Stored(k)]
Keeps     == Promise!Next \/ UNCHANGED <<StoredAll, call, reply>>

LEMMA AllSame ==
    ASSUME \A k \in Key : Stored(k)' = Stored(k)
    PROVE  StoredAll' = StoredAll
BY DEF StoredAll

\* A client that does not write changes no object.
LEMMA ReadsChangeNothing ==
    ASSUME StorageInv, NEW c \in Client, ClientStep(c), work[c].at \notin Writing
    PROVE  StoredAll' = StoredAll
BY StoredStays, AllSame DEF StorageInv

LEMMA EndsChangeNothing ==
    ASSUME StorageInv, NEW c \in Client, End(c)
    PROVE  StoredAll' = StoredAll /\ call' = Promise!Ended(c)
<1>1. \A p : Same(p)
  BY Closed DEF StorageInv
<1>2. StoredAll' = StoredAll
  BY <1>1, SameStored, AllSame
<1> QED
  BY <1>2 DEF End

\* The calls begin as they should, ...
LEMMA BeginsKeep ==
    ASSUME StorageInv, NEW c \in Client,
           \/ \E k \in Key : \/ \E x \in Content : BeginPut(c, k, x)
                             \/ BeginDelete(c, k) \/ BeginGet(c, k)
           \/ BeginList(c)
    PROVE  Keeps
<1>1. ASSUME NEW step, Begin(c, step)
      PROVE  call[c] = Promise!NoCall /\ reply' = Promise!NoReply /\ StoredAll' = StoredAll
  <2>1. work[c].at = "idle" /\ UNCHANGED disk /\ reply' = Promise!NoReply
    BY <1>1 DEF Begin, At, Silent
  <2>2. call[c] = Promise!NoCall
    BY <2>1, CallIs DEF StorageInv, KindOk
  <2>3. \A k \in Key : Stored(k)' = Stored(k)
    BY <2>1, SameStored DEF disk, Same
  <2> QED
    BY <2>1, <2>2, <2>3, AllSame
<1>2. ASSUME NEW k \in Key, NEW x \in Content, BeginPut(c, k, x)
      PROVE  Promise!BeginWrite(c, k, x)
  BY <1>1, <1>2 DEF BeginPut, Promise!BeginWrite, StoredAll
<1>3. ASSUME NEW k \in Key, BeginDelete(c, k)
      PROVE  Promise!BeginWrite(c, k, Absent)
  BY <1>1, <1>3 DEF BeginDelete, Promise!BeginWrite, StoredAll
<1>4. ASSUME NEW k \in Key, BeginGet(c, k) PROVE Promise!BeginGet(c, k)
  BY <1>1, <1>4 DEF BeginGet, Promise!BeginGet, StoredAll
<1>5. ASSUME BeginList(c) PROVE Promise!BeginList(c)
  BY <1>1, <1>5 DEF BeginList, Promise!BeginList, StoredAll
<1> QED
  BY <1>2, <1>3, <1>4, <1>5 DEF Promise!Next, Keeps

\* ... a write writes its own key, ...
LEMMA WritesKeep ==
    ASSUME StorageInv, NEW c \in Client, ClientStep(c),
           OpenBody(c) \/ WriteBlock(c) \/ OpenMeta(c) \/ UnlinkBody(c) \/ UnlinkMeta(c)
    PROVE  Promise!Write(c)
<1>1. work[c].at \in Writing /\ reply' = Promise!NoReply /\ UNCHANGED call
  BY DEF OpenBody, WriteBlock, OpenMeta, OpenFile, UnlinkBody, UnlinkMeta, Unlink, At,
         Silent, Writing
<1>2. call[c].op = "write"
  BY <1>1, CallIs DEF StorageInv, KindOk
<1>3. \A k \in Key \ {call[c].key} : Stored(k)' = Stored(k)
  BY StoredStays DEF StorageInv, KeyOf
<1>4. \A k \in Key : StoredAll[k] = Stored(k) /\ StoredAll'[k] = Stored(k)'
  BY DEF StoredAll
<1>5. \A k \in Key \ {call[c].key} : StoredAll'[k] = StoredAll[k]
  BY <1>3, <1>4
<1> QED
  BY <1>1, <1>2, <1>5 DEF Promise!Write, StoredAll

\* ... and, if no other write of that key overlapped, leaves what it was to.
LEMMA EndWriteKeeps ==
    ASSUME StorageInv, NEW c \in Client, EndWrite(c)
    PROVE  Promise!EndWrite(c)
<1>1. StoredAll' = StoredAll /\ call' = Promise!Ended(c) /\ reply' = [to |-> c, done |-> TRUE]
  BY EndsChangeNothing DEF EndWrite, Return
<1>2. /\ work[c].at \in {"meta", "deleted"}
      /\ work[c].at = "meta" => work[c].todo = <<>>
  BY DEF EndWrite, At
<1>3. KindOk(c) /\ CallOk(c) /\ WorkOk(c) /\ AloneOk(c)
  BY CallIs DEF StorageInv, TypedInv, AloneInv
<1>4. call[c].op = "write" /\ KeyOf(c) \in Key
  BY <1>2, <1>3 DEF KindOk, Writing
<1>5. ASSUME call[c].alone PROVE Stored(KeyOf(c)) = call[c].new
  <2>1. Progress(c)
    BY <1>2, <1>3, <1>5 DEF AloneOk, Writing
  <2>2. CASE work[c].at = "deleted"
    <3>1. call[c].new = Absent
      BY <1>3, <2>2 DEF CallOk, Getting, Listing
    <3> QED
      BY <2>1, <2>2, <3>1 DEF Progress, Stored
  <2>3. CASE work[c].at = "meta"
    <3>1. PICK k \in Key, x \in Content : k = KeyOf(c) /\ x = call[c].new
      BY <1>3, <1>4, <2>3 DEF CallOk, Getting, Listing
    <3>2. PICK got \in Seq(Data) : got = work[c].got
      BY <1>3, <2>3 DEF WorkOk, Open
    <3>3. /\ Named(Body(k)) /\ Contents(Body(k)) = x.body
          /\ Named(Meta(k)) /\ Contents(Meta(k)) = got
          /\ Splits(<<x.type>>, got, <<>>)
      BY <1>2, <2>1, <2>3, <3>1, <3>2 DEF Progress, Home, Contents
    <3>4. <<x.type>> \in Seq(Data)
      BY ContentIs
    <3>5. got = <<x.type>>
      BY <3>3, <3>4, SplitsEnd
    <3>6. TypeOf(k) = x.type
      BY <3>3, <3>5 DEF TypeOf
    <3>7. Stored(k) = [body |-> x.body, type |-> x.type]
      BY <3>3, <3>6 DEF Stored
    <3> QED
      BY <3>1, <3>7, ContentIs
  <2> QED
    BY <1>2, <2>2, <2>3
<1>6. call[c].alone => StoredAll[call[c].key] = call[c].new
  BY <1>4, <1>5 DEF StoredAll, KeyOf
<1> QED
  BY <1>1, <1>4, <1>6 DEF Promise!EndWrite, StoredAll

\* What a get has at the end of the file is what is there, if nobody writes it
\* meanwhile.
LEMMA ReadIs ==
    ASSUME StorageInv, NEW c \in Client, EndOfFile(c), call[c].expect[KeyOf(c)] # Unknown
    PROVE  /\ KeyOf(c) \in Key /\ work[c].got \in Seq(Data)
           /\ Stored(KeyOf(c)) # Absent /\ Stored(KeyOf(c)).body = work[c].got
<1>a. KindOk(c) /\ ExpectOk(c) /\ GetOk(c) /\ WorkOk(c)
  BY CallIs DEF StorageInv, TypedInv, ExpectInv, GetInv
<1>b. work[c].at = "read" /\ Len(blocks[work[c].file]) <= Len(work[c].got)
  BY DEF EndOfFile, At, AtEnd
<1>c. PICK k \in Key : k = KeyOf(c)
  BY <1>a, <1>b DEF KindOk, Getting
<1>d. PICK got \in Seq(Data) : got = work[c].got
  BY <1>a, <1>b DEF WorkOk, Open
<1>1. /\ Named(Body(k)) /\ names[Body(k)] = work[c].file
      /\ Len(got) <= Len(Contents(Body(k)))
      /\ \A i \in 1 .. Len(got) : got[i] = Contents(Body(k))[i]
  BY <1>a, <1>b, <1>c, <1>d DEF GetOk, Home, Contents
<1>2. PICK file \in Seq(Data) : file = Contents(Body(k))
  BY <1>1 DEF StorageInv, DiskInv, Named, Contents
<1>3. Len(file) <= Len(got)
  BY <1>b, <1>d, <1>1, <1>2 DEF Contents
<1>4. Len(file) \in Nat /\ Len(got) \in Nat
  BY LenProperties
<1>5. Len(got) = Len(file)
  BY <1>1, <1>2, <1>3, <1>4
<1>6. got = file
  BY <1>1, <1>2, <1>5, SeqEqual
<1>7. Stored(k) # Absent /\ Stored(k).body = Contents(Body(k))
  BY <1>1, StoredIs DEF StorageInv
<1> QED
  BY <1>c, <1>d, <1>2, <1>6, <1>7

\* A get returns what is there, if nobody writes it meanwhile.
LEMMA EndGetKeeps ==
    ASSUME StorageInv, NEW c \in Client, NotFound(c) \/ EndOfFile(c)
    PROVE  Promise!EndGet(c)
<1>a. KindOk(c) /\ ExpectOk(c) /\ GetOk(c) /\ WorkOk(c)
  BY CallIs DEF StorageInv, TypedInv, ExpectInv, GetInv
<1>b. StoredAll' = StoredAll /\ call' = Promise!Ended(c)
  BY EndsChangeNothing DEF NotFound, EndOfFile, Return
<1>c. work[c].at \in Getting
  BY DEF NotFound, EndOfFile, At, Getting
<1>d. PICK k \in Key : k = KeyOf(c)
  BY <1>a, <1>c DEF KindOk
<1>e. call[c].expect[k] # Unknown =>
         /\ call[c].expect[k] = Stored(k)
         /\ Named(Body(k)) <=> Stored(k) # Absent
         /\ Named(Body(k)) => Stored(k).body = Contents(Body(k))
  BY <1>a, <1>c, StoredIs DEF ExpectOk, StorageInv
<1>1. CASE NotFound(c)
  <2>1. reply' = [to |-> c, notFound |-> TRUE] /\ ~Named(Body(k))
    BY <1>1, <1>d DEF NotFound, Return
  <2>2. Promise!Answers(c)
    BY <2>1 DEF Promise!Answers
  <2>3. call[c].expect[k] # Unknown => call[c].expect[k] = Absent
    BY <2>1, <1>e
  <2> QED
    BY <1>a, <1>b, <1>c, <1>d, <2>1, <2>2, <2>3
       DEF Promise!EndGet, StoredAll, KindOk, KeyOf
<1>2. CASE EndOfFile(c)
  <2>0. PICK got \in Seq(Data) : got = work[c].got
    BY <1>a, <1>2 DEF EndOfFile, At, WorkOk, Open
  <2>1. /\ reply' = [to |-> c, body |-> got] /\ work[c].at = "read"
        /\ Len(blocks[work[c].file]) <= Len(got)
    BY <1>2, <2>0 DEF EndOfFile, Return, At, AtEnd
  <2>2. Promise!Answers(c)
    BY <2>1 DEF Promise!Answers
  <2>3. ASSUME call[c].expect[k] # Unknown
        PROVE  call[c].expect[k] # Absent /\ call[c].expect[k].body = got
    BY <1>d, <1>e, <1>2, <2>0, <2>3, ReadIs
  <2> QED
    BY <1>a, <1>b, <1>c, <1>d, <2>1, <2>2, <2>3
       DEF Promise!EndGet, StoredAll, KindOk, KeyOf
<1> QED
  BY <1>1, <1>2

\* A listing is right about every key that nobody writes meanwhile, and fails
\* only for one that somebody does.
LEMMA EndListKeeps ==
    ASSUME StorageInv, NEW c \in Client, EndList(c) \/ StatGone(c)
    PROVE  Promise!EndList(c)
<1>a. KindOk(c) /\ ExpectOk(c) /\ ListOk(c) /\ WorkOk(c)
  BY CallIs DEF StorageInv, TypedInv, ExpectInv, ListInv
<1>b. StoredAll' = StoredAll /\ call' = Promise!Ended(c)
  BY EndsChangeNothing DEF EndList, StatGone, Return
<1>c. work[c].at \in {"stat", "restat"}
  BY DEF EndList, StatGone, At
<1>d. call[c].op = "list"
  BY <1>a, <1>c DEF KindOk, Listing
<1>e. \A k \in Key : call[c].expect[k] # Unknown => ListedOk(c, k)
  BY <1>a, <1>c DEF ListOk, Listing
<1>1. CASE StatGone(c)
  <2>1. /\ reply' = [to |-> c, failed |-> TRUE]
        /\ work[c].todo # {} /\ ~Named(Body(KeyAtHand(c)))
    BY <1>1 DEF StatGone, Return
  <2>2. Promise!Answers(c) /\ "entries" \notin DOMAIN reply'
    BY <2>1 DEF Promise!Answers
  <2>3. work[c].todo \in SUBSET Key
    BY <1>a, <1>c DEF WorkOk, Listing
  <2>4. FirstOf(work[c].todo) \in work[c].todo
    BY <2>1, <2>3, FirstIs
  <2>5. PICK k \in Key : k = KeyAtHand(c) /\ k \in work[c].todo
    BY <2>3, <2>4 DEF KeyAtHand
  <2>6. call[c].expect[k] = Unknown
    <3>1. SUFFICES ASSUME call[c].expect[k] # Unknown PROVE FALSE
      OBVIOUS
    <3>2. call[c].expect[k] = Stored(k)
      BY <1>a, <1>c, <3>1 DEF ExpectOk, Listing
    <3>3. Stored(k) = Absent
      BY <2>1, <2>5 DEF Stored
    <3> QED
      BY <1>e, <2>5, <3>1, <3>2, <3>3 DEF ListedOk
  <2> QED
    BY <1>b, <1>d, <2>2, <2>6 DEF Promise!EndList, StoredAll
<1>2. CASE EndList(c)
  <2>1. reply' = [to |-> c, entries |-> work[c].got] /\ work[c].todo = {}
    BY <1>2 DEF EndList, Return
  <2>2. Promise!Answers(c) /\ "entries" \in DOMAIN reply' /\ reply'.entries = work[c].got
    BY <2>1 DEF Promise!Answers
  <2>3. ASSUME NEW k \in Key
        PROVE  /\ call[c].expect[k] = Absent => k \notin DOMAIN work[c].got
               /\ call[c].expect[k] \notin {Absent, Unknown} =>
                     /\ k \in DOMAIN work[c].got
                     /\ work[c].got[k] = [size |-> Len(call[c].expect[k].body),
                                          type |-> call[c].expect[k].type]
    BY <1>e, <2>1, StorageAssumption DEF ListedOk, Entry
  <2> QED
    BY <1>b, <1>d, <2>2, <2>3 DEF Promise!EndList, StoredAll
<1> QED
  BY <1>1, <1>2

LEMMA ExistsKeeps ==
    ASSUME StorageInv, NEW c \in Client, NEW k \in Key, ObjectExists(c, k)
    PROVE  Promise!Exists(c, k)
<1>1. /\ work[c].at = "idle" /\ UNCHANGED <<disk, call>>
      /\ reply' = [to |-> c, exists |-> Named(Body(k))]
  BY DEF ObjectExists, At
<1>2. call[c] = Promise!NoCall
  BY <1>1, CallIs DEF StorageInv, KindOk
<1>3. StoredAll' = StoredAll
  BY <1>1, SameStored, AllSame DEF disk, Same
<1>4. Named(Body(k)) <=> StoredAll[k] # Absent
  BY StoredIs DEF StorageInv, StoredAll
<1>5. PICK here : here = Named(Body(k))
  OBVIOUS
<1>6. here = (StoredAll[k] # Absent)
  BY <1>4, <1>5 DEF Named
<1>7. reply' = [to |-> c, exists |-> here]
  BY <1>1, <1>5, Zenon
<1>8. reply' = [to |-> c, exists |-> StoredAll[k] # Absent]
  BY <1>6, <1>7, Zenon
<1> QED
  BY <1>1, <1>2, <1>3, <1>8 DEF Promise!Exists, StoredAll

LEMMA StepKeeps ==
    ASSUME StorageInv, NEW c \in Client, ClientStep(c)
    PROVE  Keeps
<1>1. CASE \/ \E k \in Key : \/ \E x \in Content : BeginPut(c, k, x)
                             \/ BeginDelete(c, k) \/ BeginGet(c, k)
           \/ BeginList(c)
  BY <1>1, BeginsKeep
<1>2. CASE OpenBody(c) \/ WriteBlock(c) \/ OpenMeta(c) \/ UnlinkBody(c) \/ UnlinkMeta(c)
  BY <1>2, WritesKeep DEF Keeps, Promise!Next
<1>3. CASE EndWrite(c)
  BY <1>3, EndWriteKeeps DEF Keeps, Promise!Next
<1>4. CASE NotFound(c) \/ EndOfFile(c)
  BY <1>4, EndGetKeeps DEF Keeps, Promise!Next
<1>5. CASE EndList(c) \/ StatGone(c)
  BY <1>5, EndListKeeps DEF Keeps, Promise!Next
<1>6. ASSUME NEW k \in Key, ObjectExists(c, k) PROVE Keeps
  BY <1>6, ExistsKeeps DEF Keeps, Promise!Next
<1>7. CASE \/ OpenForReading(c) \/ ReadBlock(c) \/ ListKeys(c) \/ Stat(c) \/ ReadSidecar(c)
           \/ StatAgain(c)
  <2>1. reply' = Promise!NoReply /\ UNCHANGED call /\ work[c].at \notin Writing
    BY <1>7 DEF OpenForReading, ReadBlock, ListKeys, Stat, ReadSidecar, StatAgain, Silent,
                At, Writing
  <2>2. StoredAll' = StoredAll
    BY <2>1, ReadsChangeNothing
  <2> QED
    BY <2>1, <2>2 DEF Keeps, Promise!Next, Promise!Silent, StoredAll
<1>8. CASE Fail(c)
  <2>1. /\ work[c].at # "idle" /\ reply' = Promise!NoReply
        /\ StoredAll' = StoredAll /\ call' = Promise!Ended(c)
    BY <1>8, EndsChangeNothing DEF Fail, At, Silent
  <2>2. call[c] # Promise!NoCall
    BY <2>1, CallIs DEF StorageInv, KindOk
  <2>3. Promise!Abandon(c)
    BY <2>1, <2>2 DEF Promise!Abandon, StoredAll
  <2> QED
    BY <2>3 DEF Keeps, Promise!Next
<1> QED
  BY <1>1, <1>2, <1>3, <1>4, <1>5, <1>6, <1>7, <1>8 DEF ClientStep, WriteStep, ReadStep

\* However the operations of any number of clients interleave on the file
\* system, and wherever their calls fail, a directory keeps the promise of
\* SafeStorage: a put that no write of its key overlaps leaves what was put, a
\* get and a listing are right about every key that nobody writes meanwhile.
THEOREM LocalKeepsPromise == LocalSpec => ImplementsSafeStorage
<1>1. LocalInit => Promise!Init
  <2> SUFFICES ASSUME LocalInit PROVE Promise!Init
    OBVIOUS
  <2>1. \A k \in Key : Stored(k) = Absent
    BY DEF LocalInit, Stored, Named
  <2> QED
    BY <2>1 DEF LocalInit, Promise!Init
<1>2. StorageInv /\ [LocalNext]_localVars
        => [Promise!Next]_<<[k \in Key |-> Stored(k)], call, reply>>
  <2> SUFFICES ASSUME StorageInv, [LocalNext]_localVars
               PROVE  [Promise!Next]_<<[k \in Key |-> Stored(k)], call, reply>>
    OBVIOUS
  <2>1. CASE LocalNext
    BY <2>1, StepKeeps DEF LocalNext, Keeps, StoredAll
  <2>2. CASE UNCHANGED localVars
    <3>1. \A k \in Key : Stored(k)' = Stored(k)
      BY <2>2 DEF localVars, disk, Stored, TypeOf, Named, Contents
    <3> QED
      BY <2>2, <3>1, AllSame DEF localVars, StoredAll
  <2> QED
    BY <2>1, <2>2
<1> QED
  BY <1>1, <1>2, StorageInvariant, PTL DEF LocalSpec, ImplementsSafeStorage, Promise!Spec

-----------------------------------------------------------------------------
(***************************************************************************)
(* The link graph.                                                         *)
(***************************************************************************)
\* What is listed are keys, and what is to be read was listed.
KeysInv == listed \subseteq Key /\ iterator \subseteq listed

\* A step of the link graph is one of the storage, or none of its.
LEMMA GraphSteps ==
    ASSUME KeysInv, [Next]_vars
    PROVE  [LocalNext]_localVars
<1>1. ASSUME NEW c \in Worker, WorkerStep(c) PROVE ClientStep(c)
  <2>1. CASE StartListing(c) \/ List(c) \/ Listed(c) \/ ListingFails(c)
    BY <2>1 DEF StartListing, List, Listed, ListingFails, ClientStep, ReadStep
  <2>2. CASE TakeKey(c)
    <3>1. BeginGet(c, FirstOf(iterator)) /\ iterator # {} /\ iterator \in SUBSET Key
      BY <2>2 DEF TakeKey, KeysInv
    <3>2. FirstOf(iterator) \in Key
      BY <3>1, FirstIs
    <3>3. PICK k \in Key : k = FirstOf(iterator)
      BY <3>2
    <3>4. BeginGet(c, k)
      BY <3>1, <3>3 DEF BeginGet, Begin, Promise!GetCall
    <3> QED
      BY <3>4 DEF ClientStep
  <2>3. CASE Read(c) \/ PageMissing(c) \/ PageRefused(c) \/ PageRead(c)
    BY <2>3 DEF Read, PageMissing, PageRefused, PageRead, ClientStep, ReadStep
  <2> QED
    BY <1>1, <2>1, <2>2, <2>3 DEF WorkerStep
<1>2. ASSUME NEW c \in Client, BeginWrite(c) \/ OtherStep(c) PROVE ClientStep(c)
  BY <1>2 DEF BeginWrite, OtherStep, ClientStep
<1>3. Worker \subseteq Client
  BY GraphAssumption
<1>4. CASE UNCHANGED vars
  BY <1>4 DEF vars
<1>5. CASE GraphDone
  BY <1>5 DEF GraphDone
<1> QED
  BY <1>1, <1>2, <1>3, <1>4, <1>5 DEF Next, LocalNext

LEMMA KeysNext ==
    ASSUME StorageInv, KeysInv, [Next]_vars
    PROVE  KeysInv'
<1> USE DEF KeysInv
<1>1. ASSUME NEW c \in Worker, Listed(c) PROVE KeysInv'
  <2>1. work[c].at = "stat" /\ listed' = DOMAIN work[c].got /\ iterator' = listed'
    BY <1>1 DEF Listed, EndList, At
  <2>2. c \in Client
    BY GraphAssumption
  <2>3. DOMAIN work[c].got \subseteq Key
    BY <2>1, <2>2 DEF StorageInv, TypedInv, WorkOk, Listing
  <2> QED
    BY <2>1, <2>3
<1>2. ASSUME NEW c \in Worker, TakeKey(c) PROVE KeysInv'
  BY <1>2 DEF TakeKey
<1>3. ASSUME NEW c \in Worker,
             \/ StartListing(c) \/ List(c) \/ ListingFails(c) \/ Read(c)
             \/ PageMissing(c) \/ PageRefused(c) \/ PageRead(c)
      PROVE  UNCHANGED <<listed, iterator>>
  BY <1>3 DEF StartListing, List, ListingFails, Read, PageMissing, PageRefused, PageRead,
              Skip, graph
<1>4. CASE UNCHANGED vars
  BY <1>4 DEF vars, graph
<1>5. CASE GraphDone
  BY <1>5 DEF GraphDone
<1> QED
  BY <1>1, <1>2, <1>3, <1>4, <1>5 DEF Next, WorkerStep, graph

LEMMA GraphStart == Init => StorageInv /\ KeysInv
BY StorageStart DEF Init, KeysInv

LEMMA GraphInvariant == Spec => [](StorageInv /\ KeysInv)
<1>1. StorageInv /\ KeysInv /\ [Next]_vars => (StorageInv /\ KeysInv)'
  BY GraphSteps, StorageNext, KeysNext
<1> QED
  BY <1>1, GraphStart, PTL DEF Spec

\* So it does while the link graph is read from it.
THEOREM GraphKeepsPromise == Spec => ImplementsSafeStorage
<1>1. Init => LocalInit
  BY DEF Init
<1>2. KeysInv /\ [Next]_vars => [LocalNext]_localVars
  BY GraphSteps
<1> QED
  BY <1>1, <1>2, GraphInvariant, LocalKeepsPromise, PTL DEF Spec, LocalSpec

-----------------------------------------------------------------------------
(***************************************************************************)
(* The link graph is complete.                                             *)
(***************************************************************************)
\* The workers list, then read, and write nothing to the storage.
StageInv ==
    /\ stage \in {"idle", "listing", "reading", "done", "failed"}
    /\ \A c \in Worker :
          /\ work[c].at \notin Writing
          /\ work[c].at \in Listing => stage = "listing"
          /\ work[c].at \in Getting => stage = "reading"
    /\ \A c, d \in Worker : work[c].at \in Listing /\ work[d].at \in Listing => c = d
    /\ stage \notin {"reading", "done"} =>
          /\ lines = <<>> /\ listed = {} /\ iterator = {}
          /\ skipped = [missing |-> 0, malformed |-> 0]
    /\ stage = "done" => iterator = {}
    /\ lines \in Seq([key: Key, page: Seq(Data)])
    /\ skipped \in [missing: Nat, malformed: Nat]

\* What is not disturbed nobody writes, and every read relies on it.
KnownInv ==
    stage # "idle" =>
        \A k \in Key \ disturbed :
            /\ ~Promise!Written(k)
            /\ \A c \in Worker : work[c].at \in Getting \cup Listing =>
                  call[c].expect[k] # Unknown

\* The workers that are reading a page, and the keys that are still to come.
Busy    == {c \in Worker : work[c].at \in Getting}
Pending == iterator \cup {KeyOf(c) : c \in Busy}

\* No key is read twice, ...
OnceInv ==
    /\ \A i, j \in DOMAIN lines : lines[i].key = lines[j].key => i = j
    /\ \A i \in DOMAIN lines : lines[i].key \notin Pending
    /\ \A c, d \in Busy : KeyOf(c) = KeyOf(d) => c = d
    /\ \A c \in Busy : KeyOf(c) \notin iterator

\* ... and none is left out.
CountInv ==
    Len(lines) + skipped.missing + skipped.malformed
        + Cardinality(Busy) + Cardinality(iterator) = Cardinality(listed)

\* A line has the page that is there.
PagesInv ==
    \A k \in Key \ disturbed : \A i \in LinesOf(k) :
        Whole(k) /\ lines[i].page = Stored(k).body

\* The pages that were there and are not in the graph, and will not be.
Lost == {k \in Key \ disturbed : Whole(k) /\ LinesOf(k) = {} /\ k \notin Pending}

LostInv == stage \in {"reading", "done"} => Cardinality(Lost) <= skipped.malformed

GraphInv ==
    /\ StorageInv /\ KeysInv /\ StageInv /\ KnownInv
    /\ OnceInv /\ CountInv /\ PagesInv /\ LostInv

-----------------------------------------------------------------------------
LEMMA KeyFinite == IsFiniteSet(Key)
<1>1. KeyOrder \in Seq(Key) /\ ToSet(KeyOrder) = Key
  BY StorageAssumption
<1>2. Len(KeyOrder) \in Nat /\ KeyOrder \in [1 .. Len(KeyOrder) -> Key]
  BY <1>1, LenProperties
<1>3. \A k \in Key : \E i \in 1 .. Len(KeyOrder) : KeyOrder[i] = k
  BY <1>1, <1>2 DEF ToSet
<1>4. KeyOrder \in Surjection(1 .. Len(KeyOrder), Key)
  BY <1>2, <1>3 DEF Surjection
<1>5. IsFiniteSet(1 .. Len(KeyOrder))
  BY <1>2, FS_Interval
<1> QED
  BY <1>4, <1>5, FS_Surjection

LEMMA GraphFinite ==
    ASSUME KeysInv
    PROVE  /\ IsFiniteSet(listed) /\ IsFiniteSet(iterator) /\ IsFiniteSet(Busy) /\ IsFiniteSet(Lost)
           /\ Cardinality(listed) \in Nat /\ Cardinality(iterator) \in Nat
           /\ Cardinality(Busy) \in Nat /\ Cardinality(Lost) \in Nat
<1>1. /\ listed \in SUBSET Key /\ iterator \in SUBSET Key
      /\ Busy \in SUBSET Worker /\ Lost \in SUBSET Key
  BY DEF KeysInv, Busy, Lost
<1>2. IsFiniteSet(Key) /\ IsFiniteSet(Worker)
  BY KeyFinite, GraphAssumption
<1>3. IsFiniteSet(listed) /\ IsFiniteSet(iterator) /\ IsFiniteSet(Busy) /\ IsFiniteSet(Lost)
  BY <1>1, <1>2, FS_Subset
<1> QED
  BY <1>3, FS_CardinalityType

\* A read only loses what it relied on to a write that begins.
LEMMA ExpectLost ==
    ASSUME TypedInv, NEW c \in Client, ClientStep(c), NEW d \in Client \ {c},
           work[d].at \in Getting \cup Listing, NEW k \in Key,
           call[d].expect[k] # Unknown, call'[d].expect[k] = Unknown
    PROVE  Promise!Writes(c, k)'
<1>a. DOMAIN call = Client /\ KindOk(d)
  BY CallIs DEF TypedInv
<1>1. ASSUME NEW x, call' = [call EXCEPT ![c] = x] PROVE FALSE
  <2>1. call'[d] = call[d]
    BY <1>1
  <2> QED
    BY <2>1
<1>2. ASSUME NEW j \in Key, NEW new \in Content \cup {Absent},
             call' = Promise!WriteCall(c, j, new)
      PROVE  Promise!Writes(c, k)'
  <2>1. DOMAIN Promise!Overlapped(j) = Client
    BY DEF Promise!Overlapped
  <2>2. /\ call'[d] = Promise!Overlapped(j)[d]
        /\ call'[c] = [op |-> "write", key |-> j, new |-> new, alone |-> ~Promise!Written(j)]
    BY <1>2, <2>1 DEF Promise!WriteCall
  <2>3. call'[c].op = "write" /\ call'[c].key = j
    BY <2>2
  <2>4. Promise!Reads(d) /\ ~Promise!Writes(d, j)
    BY <1>a DEF KindOk, Writing, Getting, Listing
  <2>5. Promise!Overlapped(j)[d] = [call[d] EXCEPT !.expect[j] = Unknown]
    BY <2>4 DEF Promise!Overlapped
  <2>6. call[d].expect \in Expected /\ "expect" \in DOMAIN call[d]
    BY <1>a DEF KindOk, GetCalls, ListCalls, Expected
  <2>7. call'[d].expect = [call[d].expect EXCEPT ![j] = Unknown]
    BY <2>2, <2>5, <2>6
  <2>8. j = k
    BY <2>6, <2>7 DEF Expected
  <2> QED
    BY <2>3, <2>8 DEF Promise!Writes
<1> QED
  BY <1>1, <1>2, CallSteps DEF Promise!GetCall, Promise!ListCall, Promise!Ended

\* What is not disturbed is not written, and stays as it is.
LEMMA UndisturbedStays ==
    ASSUME StorageInv, KeysInv, KnownInv, [Next]_vars, stage # "idle", stage' # "idle",
           NEW k \in Key \ disturbed'
    PROVE  /\ k \notin disturbed /\ ~Promise!Written(k)
           /\ Stored(k)' = Stored(k) /\ Whole(k)' = Whole(k)
<1>1. k \notin disturbed
  BY DEF Next, Observe, vars
<1>2. ~Promise!Written(k)
  BY <1>1 DEF KnownInv
<1>3. Stored(k)' = Stored(k)
  <2>1. CASE UNCHANGED localVars
    BY <2>1 DEF localVars, disk, Stored, TypeOf, Named, Contents
  <2>2. ASSUME NEW c \in Client, ClientStep(c) PROVE Stored(k)' = Stored(k)
    <3>1. ~(work[c].at \in Writing /\ k = KeyOf(c))
      BY <1>2, CallIs DEF StorageInv, KindOk, Promise!Written
    <3> QED
      BY <2>2, <3>1, StoredStays DEF StorageInv
  <2> QED
    BY <2>1, <2>2, GraphSteps DEF LocalNext
<1> QED
  BY <1>1, <1>2, <1>3 DEF Whole, Page

LEMMA KnownNext ==
    ASSUME StorageInv, KeysInv, StageInv, KnownInv, [Next]_vars
    PROVE  KnownInv'
<1>1. CASE UNCHANGED vars
  BY <1>1 DEF vars, localVars, graph, KnownInv, Promise!Written, Promise!Writes
<1>2. CASE Next
  <2>1. SUFFICES ASSUME stage' # "idle", NEW k \in Key \ disturbed'
                 PROVE  /\ ~Promise!Written(k)'
                        /\ \A d \in Worker : work'[d].at \in Getting \cup Listing =>
                              call'[d].expect[k] # Unknown
    BY DEF KnownInv
  <2>2. ~Promise!Written(k)'
    BY <1>2, <2>1 DEF Next, Observe
  <2>3. ~Promise!Written(k)
    <3>1. CASE stage # "idle"
      BY <2>1, <3>1, <1>2, UndisturbedStays
    <3>2. CASE stage = "idle"
      <4>1. PICK c \in Worker : StartListing(c)
        BY <1>2, <2>1, <3>2 DEF Next, WorkerStep, StartListing, List, Listed, ListingFails,
             TakeKey, Read, PageMissing, PageRefused, PageRead, GraphDone, graph, Skip,
             StageInv, EndList, At, NotFound, EndOfFile, Listing, Getting
      <4>2. c \in Client /\ ClientStep(c) /\ work[c].at = "idle"
        BY <4>1, GraphAssumption DEF StartListing, BeginList, Begin, At, ClientStep
      <4>3. \A d \in Client \ {c} : ~Promise!Writes(d, k)
        BY <2>2, <4>2, OthersWrites DEF StorageInv, Promise!Written
      <4>4. ~Promise!Writes(c, k)
        BY <4>2, CallIs DEF StorageInv, KindOk, Writing
      <4> QED
        BY <4>3, <4>4 DEF Promise!Written
    <3> QED
      BY <3>1, <3>2
  <2>4. ASSUME NEW d \in Worker, work'[d].at \in Getting \cup Listing
        PROVE  call'[d].expect[k] # Unknown
    <3>a. d \in Client
      BY GraphAssumption
    <3>b. work[d].at \in Getting \cup Listing => call[d].expect[k] # Unknown
      <4>1. work[d].at \in Getting \cup Listing => stage # "idle"
        BY DEF StageInv
      <4>2. stage # "idle" => k \notin disturbed
        BY <2>1, <1>2, UndisturbedStays
      <4> QED
        BY <4>1, <4>2 DEF KnownInv
    <3>1. CASE UNCHANGED localVars
      BY <2>4, <3>1, <3>b DEF localVars
    <3>2. ASSUME NEW c \in Client, ClientStep(c) PROVE call'[d].expect[k] # Unknown
      <4>1. CASE d # c
        <5>1. work'[d] = work[d]
          BY <3>a, <3>2, <4>1, OthersWork DEF StorageInv
        <5>2. ASSUME call'[d].expect[k] = Unknown PROVE FALSE
          <6>1. Promise!Writes(c, k)'
            BY <2>4, <3>a, <3>b, <3>2, <4>1, <5>1, <5>2, ExpectLost DEF StorageInv
          <6> QED
            BY <2>2, <6>1 DEF Promise!Written
        <5> QED
          BY <5>2
      <4>2. CASE d = c
        <5>1. \/ UNCHANGED call /\ work[c].at \in Getting \cup Listing
              \/ call'[c].expect = Promise!View
          BY <2>4, <3>2, <4>2, OwnCallSteps DEF StorageInv, Writing, Getting, Listing
        <5>2. Promise!View[k] = Stored(k) /\ Stored(k) # Unknown
          BY <2>3, StoredIs DEF Promise!View, StorageInv
        <5> QED
          BY <3>b, <4>2, <5>1, <5>2
      <4> QED
        BY <4>1, <4>2
    <3> QED
      BY <1>2, <3>1, <3>2, GraphSteps DEF LocalNext
  <2> QED
    BY <2>2, <2>4
<1> QED
  BY <1>1, <1>2

-----------------------------------------------------------------------------
\* The client goes on with what it was doing.
SameGet(e) ==
    /\ work'[e].at \in Getting <=> work[e].at \in Getting
    /\ work[e].at \in Getting => KeyOf(e)' = KeyOf(e)

SameKind(e) ==
    /\ SameGet(e)
    /\ work'[e].at \in Listing <=> work[e].at \in Listing
    /\ work'[e].at \in Writing <=> work[e].at \in Writing

LEMMA OthersKind ==
    ASSUME StorageInv, NEW c \in Client, ClientStep(c), NEW e \in Client \ {c}
    PROVE  SameKind(e)
BY OthersWork, OthersHome DEF StorageInv, SameKind, SameGet

\* Nothing changes for the workers.
Quiet ==
    /\ \A e \in Worker : SameKind(e)
    /\ UNCHANGED <<lines, skipped, listed, iterator>>
    /\ \/ stage' = stage
       \/ stage = "reading" /\ stage' = "done" /\ iterator = {} /\ Busy = {}

\* What a step does to the graph.
GraphStep(c) ==
    \/ StartListing(c) \/ Listed(c) \/ ListingFails(c)
    \/ TakeKey(c) \/ PageMissing(c) \/ PageRefused(c) \/ PageRead(c)

LEMMA GraphCases ==
    ASSUME StorageInv, KeysInv, [Next]_vars
    PROVE  Quiet \/ \E c \in Worker : GraphStep(c)
<1>a. Worker \subseteq Client
  BY GraphAssumption
<1>1. CASE UNCHANGED vars
  <2>1. \A e \in Worker : SameKind(e)
    BY <1>1 DEF vars, localVars, SameKind, SameGet, KeyOf
  <2> QED
    BY <1>1, <2>1 DEF vars, graph, Quiet
<1>2. CASE GraphDone
  <2>1. \A e \in Worker : SameKind(e)
    BY <1>2 DEF GraphDone, localVars, SameKind, SameGet, KeyOf
  <2>2. Busy = {}
    BY <1>2 DEF GraphDone, Idlers, At, Busy, Getting
  <2> QED
    BY <1>2, <2>1, <2>2 DEF GraphDone, Quiet
<1>3. ASSUME NEW c \in Client \ Worker, BeginWrite(c) \/ OtherStep(c), UNCHANGED graph
      PROVE  Quiet
  <2>1. ClientStep(c)
    BY <1>3 DEF BeginWrite, OtherStep, ClientStep
  <2> QED
    BY <2>1, <1>3, <1>a, OthersKind DEF graph, Quiet
<1>4. ASSUME NEW c \in Worker, List(c) \/ Read(c) PROVE Quiet
  <2>1. ClientStep(c) /\ c \in Client
    BY <1>4, <1>a DEF List, Read, ClientStep, ReadStep
  <2>2. DOMAIN work = Client
    BY DEF StorageInv, TypedInv
  <2>3. SameKind(c)
    <3>1. UNCHANGED call
      BY <1>4 DEF List, Read, ListKeys, Stat, ReadSidecar, StatAgain, OpenForReading,
                  ReadBlock
    <3>2. \/ work[c].at \in Listing /\ work'[c].at \in Listing
          \/ work[c].at \in Getting /\ work'[c].at \in Getting
      BY <1>4, <2>1, <2>2 DEF List, Read, ListKeys, Stat, ReadSidecar, StatAgain,
                  OpenForReading, ReadBlock, Goes, At, Listing, Getting
    <3> QED
      BY <3>1, <3>2 DEF SameKind, SameGet, KeyOf, Listing, Getting, Writing
  <2> QED
    BY <2>1, <2>3, <1>4, <1>a, OthersKind DEF List, Read, graph, Quiet
<1> QED
  BY <1>1, <1>2, <1>3, <1>4 DEF Next, WorkerStep, GraphStep

\* What each of them does to the worker.
LEMMA GraphEffects ==
    ASSUME StorageInv, KeysInv, StageInv, NEW c \in Worker, GraphStep(c)
    PROVE  /\ c \in Client /\ ClientStep(c) /\ (\A e \in Worker \ {c} : SameKind(e))
           /\ StartListing(c) => stage = "idle" /\ work[c].at = "idle" /\ work'[c].at = "list"
           /\ Listed(c) \/ ListingFails(c) =>
                 stage = "listing" /\ work[c].at \in Listing /\ work'[c].at = "idle"
           /\ TakeKey(c) =>
                 /\ stage = "reading" /\ work[c].at = "idle" /\ work'[c].at = "get"
                 /\ FirstOf(iterator) \in iterator /\ KeyOf(c)' = FirstOf(iterator)
           /\ PageMissing(c) \/ PageRefused(c) \/ PageRead(c) =>
                 stage = "reading" /\ work[c].at \in Getting /\ work'[c].at = "idle"
<1>a. c \in Client /\ KindOk(c) /\ DOMAIN work = Client /\ DOMAIN call = Client
  BY GraphAssumption, CallIs DEF StorageInv, TypedInv
<1>1. CASE StartListing(c)
  <2>1. ClientStep(c)
    BY <1>1 DEF StartListing, ClientStep
  <2>2. stage = "idle" /\ work[c].at = "idle" /\ work'[c].at = "list"
    BY <1>1, <1>a DEF StartListing, BeginList, Begin, Goes, At
  <2>3. ~(\/ Listed(c) \/ ListingFails(c) \/ TakeKey(c)
          \/ PageMissing(c) \/ PageRefused(c) \/ PageRead(c))
    BY <2>2 DEF Listed, EndList, ListingFails, TakeKey, PageMissing, NotFound, PageRefused,
                PageRead, EndOfFile, At
  <2> QED
    BY <1>a, <2>1, <2>2, <2>3, OthersKind, GraphAssumption
<1>2. CASE Listed(c) \/ ListingFails(c)
  <2>1. ClientStep(c)
    BY <1>2 DEF Listed, ListingFails, ClientStep, ReadStep
  <2>2. work[c].at \in Listing /\ stage = "listing"
    <3>1. work[c].at # "idle"
      BY <1>2 DEF Listed, EndList, ListingFails, StatGone, Fail, At
    <3>2. Listed(c) => work[c].at \in Listing
      BY DEF Listed, EndList, At, Listing
    <3>3. ListingFails(c) => stage = "listing"
      BY DEF ListingFails
    <3> QED
      BY <1>2, <1>a, <3>1, <3>2, <3>3 DEF StageInv, KindOk, Listing, Getting, Writing
  <2>3. work'[c].at = "idle"
    BY <1>2, <1>a, EndsAt DEF Listed, EndList, ListingFails, StatGone, Fail, Return, StorageInv
  <2>4. ~(StartListing(c) \/ TakeKey(c) \/ PageMissing(c) \/ PageRefused(c) \/ PageRead(c))
    BY <2>2 DEF StartListing, TakeKey, PageMissing, NotFound, PageRefused, PageRead,
                EndOfFile, At, Listing
  <2> QED
    BY <1>a, <2>1, <2>2, <2>3, <2>4, OthersKind, GraphAssumption
<1>3. CASE TakeKey(c)
  <2>1. /\ stage = "reading" /\ BeginGet(c, FirstOf(iterator))
        /\ iterator # {} /\ iterator \in SUBSET Key
    BY <1>3 DEF TakeKey, KeysInv
  <2>2. PICK k \in Key : k = FirstOf(iterator) /\ k \in iterator
    BY <2>1, FirstIs
  <2>3. BeginGet(c, k)
    BY <2>1, <2>2 DEF BeginGet, Begin, Promise!GetCall
  <2>4. ClientStep(c)
    BY <2>3 DEF ClientStep
  <2>5. work[c].at = "idle" /\ work'[c].at = "get" /\ call'[c].key = k
    BY <2>3, <1>a DEF BeginGet, Begin, Goes, At, Promise!GetCall
  <2>6. ~(\/ StartListing(c) \/ Listed(c) \/ ListingFails(c)
          \/ PageMissing(c) \/ PageRefused(c) \/ PageRead(c))
    BY <2>1, <2>5 DEF StartListing, Listed, EndList, ListingFails, PageMissing, NotFound,
                PageRefused, Fail, PageRead, EndOfFile, At
  <2> QED
    BY <1>a, <2>1, <2>2, <2>4, <2>5, <2>6, OthersKind, GraphAssumption DEF KeyOf
<1>4. CASE PageMissing(c) \/ PageRefused(c) \/ PageRead(c)
  <2>1. ClientStep(c)
    BY <1>4 DEF PageMissing, PageRefused, PageRead, ClientStep, ReadStep
  <2>2. work[c].at \in Getting /\ stage = "reading"
    <3>1. work[c].at # "idle"
      BY <1>4 DEF PageMissing, NotFound, PageRefused, Fail, PageRead, EndOfFile, At
    <3>2. PageMissing(c) \/ PageRead(c) => work[c].at \in Getting
      BY DEF PageMissing, NotFound, PageRead, EndOfFile, At, Getting
    <3>3. PageRefused(c) => stage = "reading"
      BY DEF PageRefused
    <3> QED
      BY <1>4, <1>a, <3>1, <3>2, <3>3 DEF StageInv, KindOk, Listing, Getting, Writing
  <2>3. work'[c].at = "idle"
    BY <1>4, <1>a, EndsAt DEF PageMissing, NotFound, PageRefused, Fail, PageRead, EndOfFile,
                Return, StorageInv
  <2>4. ~(StartListing(c) \/ TakeKey(c) \/ Listed(c) \/ ListingFails(c))
    BY <2>2 DEF StartListing, TakeKey, BeginGet, Begin, Listed, EndList, ListingFails, At, Getting
  <2> QED
    BY <1>a, <2>1, <2>2, <2>3, <2>4, OthersKind, GraphAssumption
<1> QED
  BY <1>1, <1>2, <1>3, <1>4 DEF GraphStep

\* The page of a line.
LEMMA GotIs ==
    ASSUME StorageInv, NEW c \in Worker, EndOfFile(c)
    PROVE  KeyOf(c) \in Key /\ work[c].got \in Seq(Data) /\ work[c].at = "read"
<1>1. c \in Client /\ KindOk(c) /\ WorkOk(c) /\ work[c].at = "read"
  BY GraphAssumption, CallIs DEF StorageInv, TypedInv, EndOfFile, At
<1> QED
  BY <1>1 DEF KindOk, WorkOk, Getting, Open

\* A worker that ends a read leaves a line, or is counted.
LEMMA PageSteps ==
    ASSUME StorageInv, KeysInv, StageInv, NEW c \in Worker,
           PageMissing(c) \/ PageRefused(c) \/ PageRead(c)
    PROVE  /\ UNCHANGED <<stage, listed, iterator>>
           /\ \/ /\ UNCHANGED skipped
                 /\ PageRead(c) /\ work[c].got \in Page
                 /\ \E line \in [key: Key, page: Seq(Data)] :
                       /\ line.key = KeyOf(c) /\ line.page = work[c].got
                       /\ lines' = Append(lines, line)
              \/ /\ UNCHANGED lines
                 /\ \/ /\ PageMissing(c)
                       /\ skipped'.missing = skipped.missing + 1
                       /\ skipped'.malformed = skipped.malformed
                    \/ /\ skipped'.missing = skipped.missing
                       /\ skipped'.malformed = skipped.malformed + 1
                 /\ skipped' \in [missing: Nat, malformed: Nat]
<1>a. skipped \in [missing: Nat, malformed: Nat]
  BY DEF StageInv
<1>1. ASSUME Skip("missing")
      PROVE  /\ UNCHANGED <<stage, listed, iterator, lines>>
             /\ skipped'.missing = skipped.missing + 1
             /\ skipped'.malformed = skipped.malformed
             /\ skipped' \in [missing: Nat, malformed: Nat]
  BY <1>1, <1>a DEF Skip
<1>2. ASSUME Skip("malformed")
      PROVE  /\ UNCHANGED <<stage, listed, iterator, lines>>
             /\ skipped'.missing = skipped.missing
             /\ skipped'.malformed = skipped.malformed + 1
             /\ skipped' \in [missing: Nat, malformed: Nat]
  BY <1>2, <1>a DEF Skip
<1>3. CASE PageMissing(c)
  BY <1>1, <1>3 DEF PageMissing
<1>4. CASE PageRefused(c)
  BY <1>2, <1>4 DEF PageRefused
<1>5. CASE PageRead(c) /\ work[c].got \notin Page
  BY <1>2, <1>5 DEF PageRead
<1>6. CASE PageRead(c) /\ work[c].got \in Page
  <2>1. KeyOf(c) \in Key /\ work[c].got \in Seq(Data)
    BY <1>6, GotIs DEF PageRead
  <2>2. PICK line : line = [key |-> KeyOf(c), page |-> work[c].got]
    OBVIOUS
  <2>3. /\ line \in [key: Key, page: Seq(Data)]
        /\ line.key = KeyOf(c) /\ line.page = work[c].got
    BY <2>1, <2>2
  <2>4. lines' = Append(lines, line) /\ UNCHANGED <<stage, listed, iterator, skipped>>
    BY <1>6, <2>2 DEF PageRead
  <2> QED
    BY <1>6, <2>3, <2>4
<1> QED
  BY <1>3, <1>4, <1>5, <1>6

LEMMA StageNext ==
    ASSUME StorageInv, KeysInv, StageInv, [Next]_vars
    PROVE  StageInv'
<1>1. CASE Quiet
  BY <1>1 DEF Quiet, SameKind, SameGet, StageInv, Busy
<1>2. ASSUME NEW c \in Worker, StartListing(c) PROVE StageInv'
  <2>1. /\ stage = "idle" /\ work'[c].at = "list" /\ \A e \in Worker \ {c} : SameKind(e)
    BY <1>2, GraphEffects DEF GraphStep
  <2>2. stage' = "listing" /\ UNCHANGED <<listed, iterator, lines, skipped>>
    BY <1>2 DEF StartListing
  <2>3. \A e \in Worker \ {c} : work'[e].at \notin Writing \cup Listing \cup Getting
    BY <2>1 DEF SameKind, SameGet, StageInv
  <2> QED
    BY <2>1, <2>2, <2>3 DEF StageInv, Listing, Getting, Writing
<1>3. ASSUME NEW c \in Worker, Listed(c) \/ ListingFails(c) PROVE StageInv'
  <2>1. /\ stage = "listing" /\ work[c].at \in Listing /\ work'[c].at = "idle"
        /\ \A e \in Worker \ {c} : SameKind(e)
    BY <1>3, GraphEffects DEF GraphStep
  <2>2. \A e \in Worker : work'[e].at \notin Writing \cup Listing \cup Getting
    BY <2>1 DEF SameKind, SameGet, StageInv, Listing, Getting, Writing
  <2>3. \/ stage' = "reading" /\ UNCHANGED <<lines, skipped>>
        \/ stage' = "failed" /\ UNCHANGED <<listed, iterator, lines, skipped>>
    BY <1>3 DEF Listed, ListingFails
  <2> QED
    BY <2>1, <2>2, <2>3 DEF StageInv
<1>4. ASSUME NEW c \in Worker, TakeKey(c) PROVE StageInv'
  <2>1. /\ stage = "reading" /\ work'[c].at = "get" /\ \A e \in Worker \ {c} : SameKind(e)
    BY <1>4, GraphEffects DEF GraphStep
  <2>2. UNCHANGED <<stage, lines, skipped>>
    BY <1>4 DEF TakeKey
  <2> QED
    BY <2>1, <2>2 DEF SameKind, SameGet, StageInv, Listing, Getting, Writing
<1>5. ASSUME NEW c \in Worker, PageMissing(c) \/ PageRefused(c) \/ PageRead(c)
      PROVE  StageInv'
  <2>1. /\ stage = "reading" /\ work'[c].at = "idle" /\ \A e \in Worker \ {c} : SameKind(e)
    BY <1>5, GraphEffects DEF GraphStep
  <2>2. /\ UNCHANGED stage
        /\ lines' = lines \/ \E line \in [key: Key, page: Seq(Data)] : lines' = Append(lines, line)
        /\ skipped' = skipped \/ skipped' \in [missing: Nat, malformed: Nat]
    BY <1>5, PageSteps
  <2>3. lines' \in Seq([key: Key, page: Seq(Data)])
    <3>1. lines \in Seq([key: Key, page: Seq(Data)])
      BY DEF StageInv
    <3>2. ASSUME NEW line \in [key: Key, page: Seq(Data)], lines' = Append(lines, line)
          PROVE  lines' \in Seq([key: Key, page: Seq(Data)])
      BY <3>1, <3>2, AppendProperties
    <3> QED
      BY <2>2, <3>1, <3>2
  <2>4. skipped' \in [missing: Nat, malformed: Nat]
    BY <2>2 DEF StageInv
  <2> QED
    BY <2>1, <2>2, <2>3, <2>4 DEF SameKind, SameGet, StageInv, Listing, Getting, Writing
<1> QED
  BY <1>1, <1>2, <1>3, <1>4, <1>5, GraphCases DEF GraphStep

-----------------------------------------------------------------------------
\* What the cases do to the workers that are reading and to the keys to come.
LEMMA NobodyReads ==
    ASSUME StageInv, stage # "reading"
    PROVE  Busy = {}
BY DEF StageInv, Busy

LEMMA QuietSets ==
    ASSUME Quiet
    PROVE  Busy' = Busy /\ Pending' = Pending /\ \A d \in Busy : KeyOf(d)' = KeyOf(d)
<1>1. Busy' = Busy
  BY DEF Quiet, SameKind, SameGet, Busy
<1>2. \A d \in Busy : KeyOf(d)' = KeyOf(d)
  BY DEF Quiet, SameKind, SameGet, Busy
<1>3. Pending' = iterator \cup {KeyOf(d)' : d \in Busy}
  BY <1>1 DEF Quiet, Pending
<1>4. {KeyOf(d)' : d \in Busy} = {KeyOf(d) : d \in Busy}
  BY <1>2
<1> QED
  BY <1>1, <1>2, <1>3, <1>4 DEF Pending

LEMMA ListingSets ==
    ASSUME StorageInv, KeysInv, StageInv, NEW c \in Worker,
           StartListing(c) \/ Listed(c) \/ ListingFails(c)
    PROVE  /\ Busy = {} /\ Busy' = {} /\ Pending = {} /\ Pending' = iterator'
           /\ UNCHANGED <<lines, skipped>>
           /\ lines = <<>> /\ listed = {} /\ iterator = {}
           /\ skipped = [missing |-> 0, malformed |-> 0]
           /\ ~Listed(c) => UNCHANGED <<listed, iterator>> /\ stage' \notin {"reading", "done"}
<1>1. /\ stage \in {"idle", "listing"} /\ work'[c].at \notin Getting
      /\ \A e \in Worker \ {c} : SameKind(e)
  BY GraphEffects DEF GraphStep, Getting
<1>2. /\ UNCHANGED <<lines, skipped>>
      /\ ~Listed(c) => UNCHANGED <<listed, iterator>> /\ stage' \notin {"reading", "done"}
  BY DEF StartListing, Listed, ListingFails
<1>3. Busy = {}
  BY <1>1, NobodyReads
<1>4. \A e \in Worker : work'[e].at \notin Getting
  BY <1>1, <1>3 DEF Busy, SameKind, SameGet
<1>5. Busy' = {}
  BY <1>4 DEF Busy
<1>6. iterator = {} /\ lines = <<>> /\ listed = {} /\ skipped = [missing |-> 0, malformed |-> 0]
  BY <1>1 DEF StageInv
<1> QED
  BY <1>2, <1>3, <1>5, <1>6 DEF Pending

LEMMA TakeSets ==
    ASSUME StorageInv, KeysInv, StageInv, NEW c \in Worker, TakeKey(c)
    PROVE  /\ UNCHANGED <<stage, listed, lines, skipped>>
           /\ KeyOf(c)' \in iterator /\ iterator' = iterator \ {KeyOf(c)'}
           /\ c \notin Busy /\ Busy' = Busy \cup {c}
           /\ \A d \in Busy : KeyOf(d)' = KeyOf(d)
           /\ Pending' = Pending
<1>1. /\ work[c].at = "idle" /\ work'[c].at = "get"
      /\ FirstOf(iterator) \in iterator /\ KeyOf(c)' = FirstOf(iterator)
      /\ \A e \in Worker \ {c} : SameKind(e)
  BY GraphEffects DEF GraphStep
<1>2. UNCHANGED <<stage, listed, lines, skipped>> /\ iterator' = iterator \ {FirstOf(iterator)}
  BY DEF TakeKey
<1>3. c \notin Busy /\ Busy' = Busy \cup {c}
  BY <1>1 DEF Busy, SameKind, SameGet, Getting
<1>4. \A d \in Busy : KeyOf(d)' = KeyOf(d)
  BY <1>1, <1>3 DEF Busy, SameKind, SameGet
<1>5. Pending' = iterator' \cup {KeyOf(d)' : d \in Busy} \cup {KeyOf(c)'}
  BY <1>3 DEF Pending
<1>6. {KeyOf(d)' : d \in Busy} = {KeyOf(d) : d \in Busy}
  BY <1>4
<1> QED
  BY <1>1, <1>2, <1>3, <1>4, <1>5, <1>6 DEF Pending

LEMMA PageSets ==
    ASSUME StorageInv, KeysInv, StageInv, OnceInv, NEW c \in Worker,
           PageMissing(c) \/ PageRefused(c) \/ PageRead(c)
    PROVE  /\ c \in Busy /\ Busy' = Busy \ {c}
           /\ \A d \in Busy' : KeyOf(d)' = KeyOf(d)
           /\ Pending' = Pending \ {KeyOf(c)}
           /\ KeyOf(c) \in Pending
<1>1. /\ work[c].at \in Getting /\ work'[c].at = "idle"
      /\ \A e \in Worker \ {c} : SameKind(e)
  BY GraphEffects DEF GraphStep
<1>2. c \in Busy /\ Busy' = Busy \ {c}
  BY <1>1 DEF Busy, SameKind, SameGet, Getting
<1>3. \A d \in Busy' : KeyOf(d)' = KeyOf(d)
  BY <1>1, <1>2 DEF Busy, SameKind, SameGet
<1>4. Pending' = iterator \cup {KeyOf(d) : d \in Busy \ {c}}
  <2>1. iterator' = iterator
    BY PageSteps
  <2>2. {KeyOf(d)' : d \in Busy'} = {KeyOf(d) : d \in Busy'}
    BY <1>3
  <2> QED
    BY <1>2, <2>1, <2>2 DEF Pending
<1>5. \A d \in Busy \ {c} : KeyOf(d) # KeyOf(c)
  BY <1>2 DEF OnceInv
<1>6. KeyOf(c) \notin iterator
  BY <1>2 DEF OnceInv
<1> QED
  BY <1>2, <1>3, <1>4, <1>5, <1>6 DEF Pending

-----------------------------------------------------------------------------
LEMMA OnceNext ==
    ASSUME StorageInv, KeysInv, StageInv, OnceInv, [Next]_vars
    PROVE  OnceInv'
<1>1. CASE Quiet
  <2>1. /\ Busy' = Busy /\ Pending' = Pending /\ (\A d \in Busy : KeyOf(d)' = KeyOf(d))
        /\ lines' = lines /\ iterator' = iterator
    BY <1>1, QuietSets DEF Quiet
  <2> QED
    BY <2>1 DEF OnceInv
<1>2. ASSUME NEW c \in Worker, StartListing(c) \/ Listed(c) \/ ListingFails(c)
      PROVE  OnceInv'
  <2>1. Busy' = {} /\ lines' = <<>>
    BY <1>2, ListingSets
  <2> QED
    BY <2>1 DEF OnceInv
<1>3. ASSUME NEW c \in Worker, TakeKey(c) PROVE OnceInv'
  <2>1. /\ KeyOf(c)' \in iterator /\ iterator' = iterator \ {KeyOf(c)'}
        /\ c \notin Busy /\ Busy' = Busy \cup {c}
        /\ (\A d \in Busy : KeyOf(d)' = KeyOf(d))
        /\ Pending' = Pending /\ lines' = lines
    BY <1>3, TakeSets
  <2>2. \A d \in Busy : KeyOf(d)' # KeyOf(c)' /\ KeyOf(d)' \notin iterator'
    BY <2>1 DEF OnceInv
  <2> QED
    BY <2>1, <2>2 DEF OnceInv
<1>4. ASSUME NEW c \in Worker, PageMissing(c) \/ PageRefused(c) \/ PageRead(c)
      PROVE  OnceInv'
  <2>1. /\ c \in Busy /\ Busy' = Busy \ {c}
        /\ (\A d \in Busy' : KeyOf(d)' = KeyOf(d))
        /\ Pending' = Pending \ {KeyOf(c)} /\ KeyOf(c) \in Pending
    BY <1>4, PageSets
  <2>2. /\ iterator' = iterator
        /\ \/ lines' = lines
           \/ \E line \in [key: Key, page: Seq(Data)] :
                 line.key = KeyOf(c) /\ lines' = Append(lines, line)
    BY <1>4, PageSteps
  <2>3. /\ \A d, e \in Busy' : KeyOf(d)' = KeyOf(e)' => d = e
        /\ \A d \in Busy' : KeyOf(d)' \notin iterator'
    BY <2>1, <2>2 DEF OnceInv
  <2>4. CASE lines' = lines
    BY <2>1, <2>3, <2>4 DEF OnceInv
  <2>5. ASSUME NEW line \in [key: Key, page: Seq(Data)],
               line.key = KeyOf(c), lines' = Append(lines, line)
        PROVE  OnceInv'
    <3>1. lines \in Seq([key: Key, page: Seq(Data)])
      BY DEF StageInv
    <3>2. \A i \in DOMAIN lines' :
             \/ i \in DOMAIN lines /\ lines'[i] = lines[i]
             \/ i = Len(lines) + 1 /\ lines'[i] = line
      BY <3>1, <2>5
    <3>3. \A i \in DOMAIN lines : lines[i].key \notin Pending
      BY DEF OnceInv
    <3>4. \A i \in DOMAIN lines' : lines'[i].key \notin Pending'
      BY <2>1, <2>5, <3>2, <3>3
    <3>5. \A i, j \in DOMAIN lines' : lines'[i].key = lines'[j].key => i = j
      BY <2>1, <2>5, <3>2, <3>3 DEF OnceInv
    <3> QED
      BY <2>3, <3>4, <3>5 DEF OnceInv
  <2> QED
    BY <2>2, <2>4, <2>5
<1> QED
  BY <1>1, <1>2, <1>3, <1>4, GraphCases DEF GraphStep

LEMMA CountNext ==
    ASSUME StorageInv, KeysInv, StageInv, OnceInv, CountInv, [Next]_vars
    PROVE  CountInv'
<1>a. /\ IsFiniteSet(iterator) /\ IsFiniteSet(Busy)
      /\ Cardinality(iterator) \in Nat /\ Cardinality(Busy) \in Nat
      /\ Cardinality(listed) \in Nat
  BY GraphFinite
<1>b. skipped \in [missing: Nat, malformed: Nat] /\ Len(lines) \in Nat
  BY LenProperties DEF StageInv
<1>1. CASE Quiet
  <2>1. Busy' = Busy /\ UNCHANGED <<lines, skipped, listed, iterator>>
    BY <1>1, QuietSets DEF Quiet
  <2> QED
    BY <2>1 DEF CountInv
<1>2. ASSUME NEW c \in Worker, StartListing(c) \/ Listed(c) \/ ListingFails(c)
      PROVE  CountInv'
  <2>1. /\ Busy = {} /\ Busy' = {} /\ UNCHANGED <<lines, skipped>>
        /\ lines = <<>> /\ skipped = [missing |-> 0, malformed |-> 0]
        /\ ~Listed(c) => UNCHANGED <<listed, iterator>>
    BY <1>2, ListingSets
  <2>2. CASE Listed(c)
    <3>1. KeysInv' /\ listed' = iterator'
      BY <2>2, KeysNext DEF Listed
    <3>2. Cardinality(iterator') \in Nat
      BY <3>1, KeyFinite, FS_Subset, FS_CardinalityType DEF KeysInv
    <3>3. Cardinality(Busy') = 0
      BY <2>1, FS_EmptySet
    <3>4. Len(lines') = 0 /\ skipped'.missing = 0 /\ skipped'.malformed = 0
      BY <2>1
    <3> QED
      BY <3>1, <3>2, <3>3, <3>4 DEF CountInv
  <2>3. CASE ~Listed(c)
    BY <2>1, <2>3 DEF CountInv
  <2> QED
    BY <2>2, <2>3
<1>3. ASSUME NEW c \in Worker, TakeKey(c) PROVE CountInv'
  <2>1. /\ KeyOf(c)' \in iterator /\ iterator' = iterator \ {KeyOf(c)'}
        /\ c \notin Busy /\ Busy' = Busy \cup {c}
        /\ UNCHANGED <<lines, skipped, listed>>
    BY <1>3, TakeSets
  <2>2. Cardinality(iterator') = Cardinality(iterator) - 1
    BY <1>a, <2>1, FS_RemoveElement
  <2>3. Cardinality(Busy') = Cardinality(Busy) + 1
    BY <1>a, <2>1, FS_AddElement
  <2> QED
    BY <1>a, <1>b, <2>1, <2>2, <2>3 DEF CountInv
<1>4. ASSUME NEW c \in Worker, PageMissing(c) \/ PageRefused(c) \/ PageRead(c)
      PROVE  CountInv'
  <2>1. c \in Busy /\ Busy' = Busy \ {c}
    BY <1>4, PageSets
  <2>2. Cardinality(Busy') = Cardinality(Busy) - 1
    BY <1>a, <2>1, FS_RemoveElement
  <2>3. UNCHANGED <<listed, iterator>>
    BY <1>4, PageSteps
  <2>4. Len(lines') + skipped'.missing + skipped'.malformed
          = Len(lines) + skipped.missing + skipped.malformed + 1
    <3>1. \/ /\ UNCHANGED skipped
             /\ \E line \in [key: Key, page: Seq(Data)] : lines' = Append(lines, line)
          \/ /\ UNCHANGED lines
             /\ \/ /\ skipped'.missing = skipped.missing + 1
                   /\ skipped'.malformed = skipped.malformed
                \/ /\ skipped'.missing = skipped.missing
                   /\ skipped'.malformed = skipped.malformed + 1
      BY <1>4, PageSteps
    <3>2. ASSUME NEW line \in [key: Key, page: Seq(Data)], lines' = Append(lines, line)
          PROVE  Len(lines') = Len(lines) + 1
      BY <3>2, AppendProperties DEF StageInv
    <3>3. CASE UNCHANGED skipped /\ Len(lines') = Len(lines) + 1
      BY <1>b, <3>3
    <3>4. CASE UNCHANGED lines
      BY <1>b, <3>1, <3>4
    <3> QED
      BY <3>1, <3>2, <3>3, <3>4
  <2> QED
    BY <1>a, <1>b, <2>2, <2>3, <2>4 DEF CountInv
<1> QED
  BY <1>1, <1>2, <1>3, <1>4, GraphCases DEF GraphStep

\* A line is an old one, or that of the page a worker has read.
LEMMA LinesAre ==
    ASSUME StorageInv, KeysInv, StageInv, [Next]_vars, NEW i \in DOMAIN lines'
    PROVE  \/ i \in DOMAIN lines /\ lines'[i] = lines[i]
           \/ /\ i \notin DOMAIN lines
              /\ \E c \in Worker :
                    /\ PageRead(c) /\ work[c].got \in Page
                    /\ lines'[i].key = KeyOf(c) /\ lines'[i].page = work[c].got
<1>1. CASE lines' = lines
  BY <1>1
<1>2. ASSUME NEW c \in Worker, PageMissing(c) \/ PageRefused(c) \/ PageRead(c), lines' # lines
      PROVE  \/ i \in DOMAIN lines /\ lines'[i] = lines[i]
             \/ /\ i \notin DOMAIN lines
                /\ PageRead(c) /\ work[c].got \in Page
                /\ lines'[i].key = KeyOf(c) /\ lines'[i].page = work[c].got
  <2>1. PICK line \in [key: Key, page: Seq(Data)] :
           /\ line.key = KeyOf(c) /\ line.page = work[c].got
           /\ lines' = Append(lines, line)
    BY <1>2, PageSteps
  <2>2. PageRead(c) /\ work[c].got \in Page
    BY <1>2, PageSteps
  <2>3. lines \in Seq([key: Key, page: Seq(Data)])
    BY DEF StageInv
  <2>4. \/ i \in DOMAIN lines /\ lines'[i] = lines[i]
        \/ i \notin DOMAIN lines /\ lines'[i] = line
    BY <2>1, <2>3
  <2> QED
    BY <2>1, <2>2, <2>4
<1>3. CASE Quiet
  BY <1>1, <1>3 DEF Quiet
<1>4. ASSUME NEW c \in Worker,
             StartListing(c) \/ Listed(c) \/ ListingFails(c) \/ TakeKey(c)
      PROVE  lines' = lines
  BY <1>4 DEF StartListing, Listed, ListingFails, TakeKey
<1> QED
  BY <1>1, <1>2, <1>3, <1>4, GraphCases DEF GraphStep

\* Where there are lines a listing has ended.
LEMMA LinesStage ==
    ASSUME StageInv, lines # <<>>
    PROVE  stage \in {"reading", "done"}
BY DEF StageInv

LEMMA PagesNext ==
    ASSUME StorageInv, KeysInv, StageInv, KnownInv, PagesInv, [Next]_vars
    PROVE  PagesInv'
<1>a. StageInv'
  BY StageNext
<1>1. SUFFICES ASSUME NEW k \in Key \ disturbed', NEW i \in DOMAIN lines', lines'[i].key = k
               PROVE  Whole(k)' /\ lines'[i].page = Stored(k)'.body
  BY DEF PagesInv, LinesOf
<1>2. stage' # "idle"
  <2>1. lines' # <<>>
    OBVIOUS
  <2> QED
    BY <1>a, <2>1 DEF StageInv
<1>3. stage # "idle" => /\ k \notin disturbed
                        /\ Stored(k)' = Stored(k) /\ Whole(k)' = Whole(k)
  BY <1>2, UndisturbedStays
<1>4. CASE i \in DOMAIN lines /\ lines'[i] = lines[i]
  <2>1. stage # "idle"
    BY <1>4, LinesStage
  <2> QED
    BY <1>1, <1>3, <1>4, <2>1 DEF PagesInv, LinesOf
<1>5. ASSUME NEW c \in Worker, PageRead(c), work[c].got \in Page,
             lines'[i].key = KeyOf(c), lines'[i].page = work[c].got
      PROVE  Whole(k)' /\ lines'[i].page = Stored(k)'.body
  <2>1. c \in Client /\ stage = "reading" /\ work[c].at \in Getting
    BY <1>5, GraphEffects DEF GraphStep
  <2>2. call[c].expect[KeyOf(c)] # Unknown
    BY <1>1, <1>3, <1>5, <2>1 DEF KnownInv
  <2>3. Stored(k) # Absent /\ Stored(k).body = work[c].got
    BY <1>1, <1>5, <2>1, <2>2, ReadIs DEF PageRead
  <2> QED
    BY <1>3, <1>5, <2>1, <2>3 DEF Whole
<1> QED
  BY <1>4, <1>5, LinesAre

-----------------------------------------------------------------------------
\* A page is lost when its key is no longer to come, or never.
LEMMA LostComes ==
    ASSUME StorageInv, KeysInv, StageInv, KnownInv, [Next]_vars, stage # "idle",
           stage' # "idle", NEW k \in Lost'
    PROVE  k \in Lost \/ k \in Pending
<1>1. /\ k \in Key \ disturbed' /\ Whole(k)' /\ k \notin Pending'
      /\ ~\E i \in DOMAIN lines' : lines'[i].key = k
  BY DEF Lost, LinesOf
<1>2. k \notin disturbed /\ Whole(k)
  BY <1>1, UndisturbedStays
<1>3. \A i \in DOMAIN lines : i \in DOMAIN lines' /\ lines'[i] = lines[i]
  <2>1. CASE lines' = lines
    BY <2>1
  <2>2. ASSUME NEW line \in [key: Key, page: Seq(Data)], lines' = Append(lines, line)
        PROVE  \A i \in DOMAIN lines : i \in DOMAIN lines' /\ lines'[i] = lines[i]
    BY <2>2 DEF StageInv
  <2>3. ASSUME NEW c \in Worker, GraphStep(c)
        PROVE  \/ lines' = lines
               \/ \E line \in [key: Key, page: Seq(Data)] : lines' = Append(lines, line)
    <3>1. CASE PageMissing(c) \/ PageRefused(c) \/ PageRead(c)
      BY <3>1, PageSteps
    <3>2. CASE StartListing(c) \/ Listed(c) \/ ListingFails(c) \/ TakeKey(c)
      BY <3>2 DEF StartListing, Listed, ListingFails, TakeKey
    <3> QED
      BY <2>3, <3>1, <3>2 DEF GraphStep
  <2> QED
    BY <2>1, <2>2, <2>3, GraphCases DEF Quiet
<1>4. LinesOf(k) = {}
  BY <1>1, <1>3 DEF LinesOf
<1> QED
  BY <1>1, <1>2, <1>4 DEF Lost

\* None is when the listing ends, which has every page that nobody wrote.
LEMMA NoneLost ==
    ASSUME StorageInv, KeysInv, StageInv, KnownInv, [Next]_vars, NEW c \in Worker, Listed(c)
    PROVE  Lost' = {}
<1>1. SUFFICES ASSUME NEW k \in Lost' PROVE FALSE
  OBVIOUS
<1>2. /\ stage = "listing" /\ work[c].at \in Listing \ {"list"} /\ c \in Client
      /\ work[c].todo = {} /\ iterator' = DOMAIN work[c].got /\ stage' = "reading"
  BY GraphEffects DEF GraphStep, Listed, EndList, At, Listing
<1>3. k \in Key \ disturbed' /\ Whole(k)' /\ k \notin iterator'
  BY DEF Lost, Pending
<1>4. k \notin disturbed /\ Whole(k)
  BY <1>2, <1>3, UndisturbedStays
<1>5. call[c].expect[k] # Unknown
  BY <1>2, <1>3, <1>4 DEF KnownInv
<1>6. call[c].expect[k] = Stored(k)
  BY <1>2, <1>3, <1>5 DEF StorageInv, ExpectInv, ExpectOk
<1>7. ListedOk(c, k)
  BY <1>2, <1>3, <1>5 DEF StorageInv, ListInv, ListOk
<1>8. Stored(k) # Absent
  BY <1>4 DEF Whole
<1> QED
  BY <1>2, <1>3, <1>6, <1>7, <1>8 DEF ListedOk

\* Nor is one that is missing.
LEMMA MissingIsNotWhole ==
    ASSUME StorageInv, KeysInv, StageInv, KnownInv, NEW c \in Worker, PageMissing(c),
           KeyOf(c) \in Key \ disturbed
    PROVE  ~Whole(KeyOf(c))
<1>1. /\ stage = "reading" /\ work[c].at \in Getting /\ c \in Client
      /\ ~Named(Body(KeyOf(c)))
  BY GraphEffects DEF GraphStep, PageMissing, NotFound
<1> QED
  BY <1>1 DEF Whole, Stored

LEMMA LostNext ==
    ASSUME StorageInv, KeysInv, StageInv, KnownInv, OnceInv, LostInv, [Next]_vars
    PROVE  LostInv'
<1>a. StageInv' /\ KeysInv'
  BY StageNext, KeysNext
<1>b. IsFiniteSet(Lost) /\ Cardinality(Lost) \in Nat /\ skipped \in [missing: Nat, malformed: Nat]
  BY GraphFinite DEF StageInv
<1>1. SUFFICES ASSUME stage' \in {"reading", "done"}
               PROVE  Cardinality(Lost') <= skipped'.malformed
  BY DEF LostInv
<1>2. ASSUME stage \in {"reading", "done"}, Lost' \subseteq Lost,
             skipped'.malformed = skipped.malformed
      PROVE  Cardinality(Lost') <= skipped'.malformed
  <2>1. Cardinality(Lost') <= Cardinality(Lost) /\ Cardinality(Lost') \in Nat
    BY <1>b, <1>2, FS_Subset, FS_CardinalityType
  <2>2. Cardinality(Lost) <= skipped.malformed
    BY <1>2 DEF LostInv
  <2> QED
    BY <1>b, <1>2, <2>1, <2>2
<1>3. stage \in {"reading", "done"} => Lost' \subseteq Lost \cup (Pending \ Pending')
  BY <1>1, LostComes DEF Lost
<1>4. CASE Quiet
  <2>1. /\ stage \in {"reading", "done"} /\ Pending' = Pending
        /\ skipped'.malformed = skipped.malformed
    BY <1>1, <1>4, QuietSets DEF Quiet
  <2> QED
    BY <1>2, <1>3, <2>1
<1>5. ASSUME NEW c \in Worker, StartListing(c) \/ Listed(c) \/ ListingFails(c)
      PROVE  Cardinality(Lost') <= skipped'.malformed
  <2>1. Listed(c) /\ skipped' = [missing |-> 0, malformed |-> 0]
    BY <1>1, <1>5, ListingSets
  <2>2. Cardinality(Lost') = 0
    BY <2>1, NoneLost, FS_EmptySet
  <2> QED
    BY <2>1, <2>2
<1>6. ASSUME NEW c \in Worker, TakeKey(c)
      PROVE  Cardinality(Lost') <= skipped'.malformed
  <2>1. stage' = stage /\ skipped'.malformed = skipped.malformed /\ Pending' = Pending
    BY <1>6, TakeSets
  <2> QED
    BY <1>1, <1>2, <1>3, <2>1
<1>7. ASSUME NEW c \in Worker, PageMissing(c) \/ PageRefused(c) \/ PageRead(c)
      PROVE  Cardinality(Lost') <= skipped'.malformed
  <2>1. stage' = stage /\ Pending' = Pending \ {KeyOf(c)} /\ KeyOf(c) \in Pending
    BY <1>7, PageSets, PageSteps
  <2>2. Lost' \subseteq Lost \cup {KeyOf(c)}
    BY <1>1, <1>3, <2>1
  <2>3. ASSUME NEW line \in [key: Key, page: Seq(Data)], UNCHANGED skipped,
               line.key = KeyOf(c), lines' = Append(lines, line)
        PROVE  Cardinality(Lost') <= skipped'.malformed
    <3>1. lines'[Len(lines) + 1].key = KeyOf(c) /\ Len(lines) + 1 \in DOMAIN lines'
      BY <2>3 DEF StageInv
    <3>2. KeyOf(c) \notin Lost'
      <4>1. SUFFICES ASSUME NEW k \in Lost', k = KeyOf(c) PROVE FALSE
        OBVIOUS
      <4>2. \A i \in DOMAIN lines' : lines'[i].key # k
        BY DEF Lost, LinesOf
      <4> QED
        BY <3>1, <4>1, <4>2
    <3> QED
      BY <1>1, <1>2, <2>1, <2>2, <2>3, <3>2
  <2>4. CASE PageMissing(c) /\ skipped'.malformed = skipped.malformed
    <3>1. KeyOf(c) \notin Lost'
      <4>1. SUFFICES ASSUME NEW k \in Lost', k = KeyOf(c) PROVE FALSE
        OBVIOUS
      <4>2. k \in Key \ disturbed' /\ Whole(k)'
        BY DEF Lost
      <4>3. k \notin disturbed /\ Whole(k)
        BY <1>1, <2>1, <4>2, UndisturbedStays
      <4> QED
        BY <2>4, <4>1, <4>2, <4>3, MissingIsNotWhole
    <3> QED
      BY <1>1, <1>2, <2>1, <2>2, <2>4, <3>1
  <2>5. CASE skipped'.malformed = skipped.malformed + 1
    <3>0. PICK k : k = KeyOf(c)
      OBVIOUS
    <3>1. /\ IsFiniteSet(Lost \cup {k})
          /\ Cardinality(Lost \cup {k}) <= Cardinality(Lost) + 1
      <4>1. CASE k \in Lost
        <5>1. Lost \cup {k} = Lost
          BY <4>1
        <5> QED
          BY <1>b, <5>1
      <4>2. CASE k \notin Lost
        <5>1. IsFiniteSet(Lost \cup {k}) /\ Cardinality(Lost \cup {k}) = Cardinality(Lost) + 1
          BY <1>b, <4>2, FS_AddElement
        <5> QED
          BY <1>b, <5>1
      <4> QED
        BY <4>1, <4>2
    <3>2. /\ IsFiniteSet(Lost') /\ Cardinality(Lost') \in Nat
          /\ Cardinality(Lost') <= Cardinality(Lost \cup {k})
          /\ Cardinality(Lost \cup {k}) \in Nat
      BY <2>2, <3>0, <3>1, FS_Subset, FS_CardinalityType
    <3>3. Cardinality(Lost) <= skipped.malformed
      BY <1>1, <2>1 DEF LostInv
    <3> QED
      BY <1>b, <2>5, <3>1, <3>2, <3>3
  <2> QED
    BY <1>7, <2>3, <2>4, <2>5, PageSteps
<1> QED
  BY <1>4, <1>5, <1>6, <1>7, GraphCases DEF GraphStep

-----------------------------------------------------------------------------
LEMMA GraphInvInit == Init => GraphInv
<1> SUFFICES ASSUME Init PROVE GraphInv
  OBVIOUS
<1>1. StorageInv /\ KeysInv
  BY GraphStart
<1>2. /\ stage = "idle" /\ listed = {} /\ iterator = {} /\ lines = <<>>
      /\ skipped = [missing |-> 0, malformed |-> 0]
      /\ \A c \in Worker : work[c].at = "idle"
  BY GraphAssumption DEF Init, LocalInit, Idle
<1>3. StageInv
  BY <1>2 DEF StageInv, Writing, Listing, Getting
<1>4. KnownInv /\ LostInv
  BY <1>2 DEF KnownInv, LostInv
<1>5. PagesInv
  BY <1>2 DEF PagesInv, LinesOf
<1>6. Busy = {}
  BY <1>2, <1>3, NobodyReads
<1>7. OnceInv
  BY <1>2, <1>6 DEF OnceInv
<1>8. CountInv
  <2>1. Len(lines) = 0 /\ skipped.missing = 0 /\ skipped.malformed = 0
    BY <1>2
  <2>2. Cardinality(Busy) = 0 /\ Cardinality(iterator) = 0 /\ Cardinality(listed) = 0
    BY <1>2, <1>6, FS_EmptySet
  <2> QED
    BY <2>1, <2>2 DEF CountInv
<1> QED
  BY <1>1, <1>3, <1>4, <1>5, <1>7, <1>8 DEF GraphInv

LEMMA GraphInvNext == GraphInv /\ [Next]_vars => GraphInv'
<1> SUFFICES ASSUME GraphInv, [Next]_vars PROVE GraphInv'
  OBVIOUS
<1> USE DEF GraphInv
<1>1. StorageInv'
  BY GraphSteps, StorageNext
<1> QED
  BY <1>1, KeysNext, StageNext, KnownNext, OnceNext, CountNext, PagesNext, LostNext

LEMMA GraphInvComplete == GraphInv => GraphIsComplete
<1> SUFFICES ASSUME GraphInv, stage = "done" PROVE GraphIsComplete
  BY DEF GraphIsComplete
<1> USE DEF GraphInv
<1>1. Busy = {} /\ iterator = {}
  BY NobodyReads DEF StageInv
<1>2. Cardinality(Busy) = 0 /\ Cardinality(iterator) = 0
  BY <1>1, FS_EmptySet
<1>3. Len(lines) + skipped.missing + skipped.malformed = Cardinality(listed)
  <2>1. Len(lines) \in Nat /\ skipped \in [missing: Nat, malformed: Nat]
    BY LenProperties DEF StageInv
  <2> QED
    BY <1>2, <2>1 DEF CountInv
<1>4. Pending = {}
  BY <1>1 DEF Pending
<1>5. Lost = {k \in Key \ disturbed : Whole(k) /\ LinesOf(k) = {}}
  BY <1>4 DEF Lost
<1>6. Cardinality(Lost) <= skipped.malformed
  BY DEF LostInv
<1> QED
  BY <1>3, <1>5, <1>6 DEF GraphIsComplete, OnceInv, PagesInv

\* Every page that was listed is accounted for, once, and those that nobody
\* wrote are in the graph as they are, however many workers share the keys and
\* whatever others do to the storage meanwhile.
THEOREM GraphCompletes == Spec => []GraphIsComplete
BY GraphInvInit, GraphInvNext, GraphInvComplete, PTL DEF Spec
=============================================================================
