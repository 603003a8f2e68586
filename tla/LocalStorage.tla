----------------------------- MODULE LocalStorage -----------------------------
(***************************************************************************)
(* LocalFilesystemObjectStorage (storage/local.py): an object is a file    *)
(* and its sidecar with the content type.  The calls of several clients,   *)
(* threads of one process or of several, interleave between any two        *)
(* operations on the file system, and a client may die, or its call fail,  *)
(* between any two.                                                        *)
(*                                                                         *)
(* A file is a sequence of blocks, of which a write or a read takes one;   *)
(* the sidecar is one block.  A path names a file; a file without a name   *)
(* lives on for those who have it open.                                    *)
(***************************************************************************)
EXTENDS Integers, SequencesExt

CONSTANTS
    Client,
    Key,
    KeyOrder,   \* the keys, in the order of sorted()
    Block, Type,
    Content,    \* what is put: records of a body, which is blocks, and a type
    Hole,       \* a block nobody wrote, before one that somebody did
    Default,    \* application/octet-stream, the type without a sidecar
    File,       \* files, as many as can be named or open at a time
    NoFile,
    Absent, Unknown

\* What is in a file, and what is at a key.
Data   == Block \cup Type \cup {Hole, Default}
Object == [body: Seq(Data), type: Data]

ASSUME StorageAssumption ==
    /\ KeyOrder \in Seq(Key) /\ IsInjective(KeyOrder) /\ ToSet(KeyOrder) = Key
    /\ Content \subseteq [body: Seq(Block), type: Type]
    /\ NoFile \notin File
    /\ Absent # Unknown /\ Absent \notin Object /\ Unknown \notin Object

VARIABLES
    names,   \* path :> file
    blocks,  \* file :> what is in it
    work,    \* what each client is doing
    call,    \* history: the call it is in, and what it may rely on
    reply    \* what the last step returned, and to whom, if it did

disk       == <<names, blocks>>
localVars  == <<disk, work, call, reply>>

Body(k) == <<k, "body">>
Meta(k) == <<k, "metadata.json">>

Idle   == [at |-> "idle", file |-> NoFile, todo |-> <<>>, got |-> <<>>]

Named(path) == path \in DOMAIN names
Contents(path) == blocks[names[path]]

\* The type a listing finds: that of the sidecar, if it is there and whole.
TypeOf(k) == IF Named(Meta(k)) /\ Len(Contents(Meta(k))) = 1
             THEN Contents(Meta(k))[1] ELSE Default

\* The object at a key.
Stored(k) == IF Named(Body(k)) THEN [body |-> Contents(Body(k)), type |-> TypeOf(k)]
             ELSE Absent

Promise == INSTANCE SafeStorage WITH object <- [k \in Key |-> Stored(k)]

LocalInit ==
    /\ names = <<>>
    /\ blocks = <<>>
    /\ work = [c \in Client |-> Idle]
    /\ call = [c \in Client |-> Promise!NoCall]
    /\ reply = Promise!NoReply

-----------------------------------------------------------------------------
At(c, step) == work[c].at = step
KeyOf(c)    == call[c].key

\* A file without a name that nobody has open is gone.
Kept == Restrict(blocks, {f \in DOMAIN blocks :
                             f \in Range(names') \/ \E c \in Client : work'[c].file = f})

Silent == reply' = Promise!NoReply

Goes(c, step, file, todo, got) ==
    work' = [work EXCEPT ![c] = [at |-> step, file |-> file, todo |-> todo, got |-> got]]

Begin(c, step) ==
    /\ At(c, "idle")
    /\ Goes(c, step, NoFile, <<>>, <<>>)
    /\ Silent
    /\ UNCHANGED disk

End(c) ==
    /\ work' = [work EXCEPT ![c] = Idle]
    /\ call' = Promise!Ended(c)
    /\ UNCHANGED names
    /\ blocks' = Kept

Return(c, answer) == End(c) /\ reply' = answer

NewFile == CHOOSE f \in File : f \notin DOMAIN blocks

\* A value for one more argument, or another one for it.
With(f, x, value) == [y \in DOMAIN f \cup {x} |-> IF y = x THEN value ELSE f[y]]

\* Mutant of OpenFile: the file that has the name is not truncated.
OpenFileKeep(c, path, step, todo) ==
    /\ \/ /\ Named(path)
          /\ UNCHANGED disk
       \/ /\ ~Named(path) /\ File # DOMAIN blocks
          /\ names' = With(names, path, NewFile)
          /\ blocks' = With(blocks, NewFile, <<>>)
    /\ Goes(c, step, names'[path], todo, <<>>)
    /\ Silent /\ UNCHANGED call

\* Opening a file for writing truncates the one that has the name, or makes one.
OpenFile(c, path, step, todo) ==
    /\ \/ /\ Named(path)
          /\ blocks' = [blocks EXCEPT ![names[path]] = <<>>]
          /\ UNCHANGED names
       \/ /\ ~Named(path) /\ File # DOMAIN blocks
          /\ names' = With(names, path, NewFile)
          /\ blocks' = With(blocks, NewFile, <<>>)
    /\ Goes(c, step, names'[path], todo, <<>>)
    /\ Silent /\ UNCHANGED call

\* A write at a position, whatever others made of the file meanwhile.
WrittenAt(file, i, block) ==
    [j \in 1 .. (IF Len(file) < i THEN i ELSE Len(file)) |->
        IF j = i THEN block ELSE IF j <= Len(file) THEN file[j] ELSE Hole]

-----------------------------------------------------------------------------
\* put_object: write_bytes, ...
BeginPut(c, k, x) ==
    /\ Begin(c, "put")
    /\ call' = Promise!WriteCall(c, k, x)

OpenBody(c) ==
    /\ At(c, "put")
    /\ OpenFile(c, Body(KeyOf(c)), "body", call[c].new.body)

\* One block.  got is what was written before.
WriteBlock(c) ==
    /\ work[c].at \in {"body", "meta"}
    /\ work[c].todo # <<>>
    /\ LET block == Head(work[c].todo)
           file  == work[c].file
       IN  /\ blocks' = [blocks EXCEPT ![file] =
                           WrittenAt(blocks[file], Len(work[c].got) + 1, block)]
           /\ Goes(c, work[c].at, file, Tail(work[c].todo), Append(work[c].got, block))
    /\ Silent /\ UNCHANGED <<names, call>>

\* ... then write_text of the sidecar.
OpenMeta(c) ==
    /\ At(c, "body")
    /\ work[c].todo = <<>>
    /\ OpenFile(c, Meta(KeyOf(c)), "meta", <<call[c].new.type>>)

\* delete_object: the body, then the sidecar, each of which may be missing.
BeginDelete(c, k) ==
    /\ Begin(c, "delete")
    /\ call' = Promise!WriteCall(c, k, Absent)

Unlink(c, step, path, next) ==
    /\ At(c, step)
    /\ names' = [p \in DOMAIN names \ {path} |-> names[p]]
    /\ Goes(c, next, NoFile, <<>>, <<>>)
    /\ blocks' = Kept
    /\ Silent /\ UNCHANGED call

UnlinkBody(c) == Unlink(c, "delete", Body(KeyOf(c)), "unlink")
UnlinkMeta(c) == Unlink(c, "unlink", Meta(KeyOf(c)), "deleted")

EndWrite(c) ==
    /\ At(c, "deleted") \/ (At(c, "meta") /\ work[c].todo = <<>>)
    /\ Return(c, [to |-> c, done |-> TRUE])

-----------------------------------------------------------------------------
\* get_object: read_bytes, to the end of the file that had the name.
BeginGet(c, k) ==
    /\ Begin(c, "get")
    /\ call' = Promise!GetCall(c, k)

OpenForReading(c) ==
    /\ At(c, "get")
    /\ Named(Body(KeyOf(c)))
    /\ Goes(c, "read", names[Body(KeyOf(c))], <<>>, <<>>)
    /\ Silent /\ UNCHANGED <<disk, call>>

NotFound(c) ==
    /\ At(c, "get")
    /\ ~Named(Body(KeyOf(c)))
    /\ Return(c, [to |-> c, notFound |-> TRUE])

AtEnd(c) == Len(blocks[work[c].file]) <= Len(work[c].got)

ReadBlock(c) ==
    /\ At(c, "read")
    /\ ~AtEnd(c)
    /\ Goes(c, "read", work[c].file, <<>>,
            Append(work[c].got, blocks[work[c].file][Len(work[c].got) + 1]))
    /\ Silent /\ UNCHANGED <<disk, call>>

EndOfFile(c) ==
    /\ At(c, "read")
    /\ AtEnd(c)
    /\ Return(c, [to |-> c, body |-> work[c].got])

\* object_exists
ObjectExists(c, k) ==
    /\ At(c, "idle")
    /\ reply' = [to |-> c, exists |-> Named(Body(k))]
    /\ UNCHANGED <<disk, work, call>>

-----------------------------------------------------------------------------
\* list_objects: the names at once, ...
BeginList(c) ==
    /\ Begin(c, "list")
    /\ call' = Promise!ListCall(c)

ListKeys(c) ==
    /\ At(c, "list")
    /\ Goes(c, "stat", NoFile, {k \in Key : Named(Body(k))}, <<>>)
    /\ Silent /\ UNCHANGED <<disk, call>>

\* ... then, of one key after the other, the size and the sidecar.  got has the
\* entries.
FirstOf(keys) == KeyOrder[Min({i \in DOMAIN KeyOrder : KeyOrder[i] \in keys})]
KeyAtHand(c)  == FirstOf(work[c].todo)
Others(c)     == work[c].todo \ {KeyAtHand(c)}

Stat(c) ==
    /\ At(c, "stat")
    /\ work[c].todo # {}
    /\ Named(Body(KeyAtHand(c)))
    /\ LET entry == [size |-> Len(Contents(Body(KeyAtHand(c)))), type |-> Default]
       IN  Goes(c, "sidecar", NoFile, work[c].todo, With(work[c].got, KeyAtHand(c), entry))
    /\ Silent /\ UNCHANGED <<disk, call>>

\* A sidecar that is missing or torn is made up for, after a second look at the
\* file.
ReadSidecar(c) ==
    /\ At(c, "sidecar")
    /\ LET k     == KeyAtHand(c)
           entry == [size |-> work[c].got[k].size, type |-> Contents(Meta(k))[1]]
       IN  IF Named(Meta(k)) /\ Contents(Meta(k)) # <<>>
           THEN Goes(c, "stat", NoFile, Others(c), With(work[c].got, k, entry))
           ELSE Goes(c, "restat", NoFile, work[c].todo, work[c].got)
    /\ Silent /\ UNCHANGED <<disk, call>>

StatAgain(c) ==
    /\ At(c, "restat")
    /\ Named(Body(KeyAtHand(c)))
    /\ Goes(c, "stat", NoFile, Others(c), work[c].got)
    /\ Silent /\ UNCHANGED <<disk, call>>

\* A file that is gone by now is an error nobody handles.
StatGone(c) ==
    /\ work[c].at \in {"stat", "restat"}
    /\ work[c].todo # {}
    /\ ~Named(Body(KeyAtHand(c)))
    /\ Return(c, [to |-> c, failed |-> TRUE])

EndList(c) ==
    /\ At(c, "stat")
    /\ work[c].todo = {}
    /\ Return(c, [to |-> c, entries |-> work[c].got])

-----------------------------------------------------------------------------
\* The client dies, or the file system refuses an operation.
Fail(c) ==
    /\ ~At(c, "idle")
    /\ End(c)
    /\ Silent

WriteStep(c) ==
    OpenBody(c) \/ WriteBlock(c) \/ OpenMeta(c) \/ UnlinkBody(c) \/ UnlinkMeta(c) \/ EndWrite(c)

ReadStep(c) ==
    \/ OpenForReading(c) \/ NotFound(c) \/ ReadBlock(c) \/ EndOfFile(c)
    \/ ListKeys(c) \/ Stat(c) \/ ReadSidecar(c) \/ StatAgain(c) \/ StatGone(c)
    \/ EndList(c)

ClientStep(c) ==
    \/ \E k \in Key : \/ \E x \in Content : BeginPut(c, k, x)
                      \/ BeginDelete(c, k) \/ BeginGet(c, k) \/ ObjectExists(c, k)
    \/ BeginList(c) \/ WriteStep(c) \/ ReadStep(c) \/ Fail(c)

LocalNext == \E c \in Client : ClientStep(c)

LocalSpec == LocalInit /\ [][LocalNext]_localVars

-----------------------------------------------------------------------------
\* However the operations of the clients interleave, and wherever they die, the
\* directory keeps the promise of SafeStorage.
ImplementsSafeStorage == Promise!Spec

\* What incremental/snapshot.py says: a put is atomic, so a get returns the whole
\* of what somebody put.
PutIsAtomic ==
    "body" \in DOMAIN reply => \E x \in Content : reply.body = x.body
=============================================================================
