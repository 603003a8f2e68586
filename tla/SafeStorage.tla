----------------------------- MODULE SafeStorage -----------------------------
(***************************************************************************)
(* What the storage in a local directory promises of protocols.py: the     *)
(* calls of clients take time, and, as with Lamport's safe registers, a    *)
(* call is only promised something about the keys that nobody writes while *)
(* it lasts.  A put that no other write of its key overlaps leaves what    *)
(* was put.  A read gets what is there, of every key that no write         *)
(* overlapped.  Whatever overlapping or interrupted writes leave, it is    *)
(* one object, and each later read sees the same.                          *)
(*                                                                         *)
(* An object is [body, type], or Absent.                                   *)
(***************************************************************************)
EXTENDS Integers, Sequences

CONSTANTS
    Client,
    Key,
    Content,   \* what is put
    Absent,
    Unknown    \* nothing is promised

VARIABLES
    object,    \* what is at each key
    call,      \* the call each client is in
    reply      \* what the last step returned, and to whom, if it did

NoCall   == [op |-> "none"]
NoReply  == [none |-> TRUE]

Init ==
    /\ object = [k \in Key |-> Absent]
    /\ call = [c \in Client |-> NoCall]
    /\ reply = NoReply

-----------------------------------------------------------------------------
Writes(c, k) == call[c].op = "write" /\ call[c].key = k
Written(k)   == \E c \in Client : Writes(c, k)
Reads(c)     == call[c].op \in {"get", "list"}

\* The calls under way, once a write of k overlaps with them.
Overlapped(k) ==
    [c \in Client |->
        IF Writes(c, k) THEN [call[c] EXCEPT !.alone = FALSE]
        ELSE IF Reads(c) THEN [call[c] EXCEPT !.expect[k] = Unknown]
        ELSE call[c]]

\* What a read that begins now may rely on.
View == [k \in Key |-> IF Written(k) THEN Unknown ELSE object[k]]

\* The calls when c begins a call.
WriteCall(c, k, new) ==
    [Overlapped(k) EXCEPT
        ![c] = [op |-> "write", key |-> k, new |-> new, alone |-> ~Written(k)]]
GetCall(c, k) == [call EXCEPT ![c] = [op |-> "get", key |-> k, expect |-> View]]
ListCall(c)   == [call EXCEPT ![c] = [op |-> "list", expect |-> View]]
Ended(c)      == [call EXCEPT ![c] = NoCall]

\* The step answers c.
Answers(c) == "to" \in DOMAIN reply' /\ reply'.to = c

-----------------------------------------------------------------------------
\* A put of new, or the delete when new is Absent.
BeginWrite(c, k, new) ==
    /\ call[c] = NoCall
    /\ reply' = NoReply
    /\ call' = WriteCall(c, k, new)
    /\ UNCHANGED object

\* While it lasts the object is anything.
Write(c) ==
    /\ call[c].op = "write"
    /\ reply' = NoReply
    /\ UNCHANGED call
    /\ \A k \in Key \ {call[c].key} : object'[k] = object[k]

EndWrite(c) ==
    /\ call[c].op = "write"
    /\ call[c].alone => object[call[c].key] = call[c].new
    /\ call' = Ended(c)
    /\ reply' = [to |-> c, done |-> TRUE]
    /\ UNCHANGED object

BeginGet(c, k) ==
    /\ call[c] = NoCall
    /\ reply' = NoReply
    /\ call' = GetCall(c, k)
    /\ UNCHANGED object

\* The body, or that there is none.
EndGet(c) ==
    /\ call[c].op = "get"
    /\ Answers(c)
    /\ LET found == call[c].expect[call[c].key]
       IN  found # Unknown =>
               reply' = IF found = Absent THEN [to |-> c, notFound |-> TRUE]
                                          ELSE [to |-> c, body |-> found.body]
    /\ call' = Ended(c)
    /\ UNCHANGED object

BeginList(c) ==
    /\ call[c] = NoCall
    /\ reply' = NoReply
    /\ call' = ListCall(c)
    /\ UNCHANGED object

\* The size and the type of every object, and of nothing else; an error only if
\* something was written meanwhile.
EndList(c) ==
    /\ call[c].op = "list"
    /\ Answers(c)
    /\ LET expect == call[c].expect
       IN  IF "entries" \in DOMAIN reply'
           THEN \A k \in Key :
                    LET entries == reply'.entries
                    IN  /\ expect[k] = Absent => k \notin DOMAIN entries
                        /\ expect[k] \notin {Absent, Unknown} =>
                             /\ k \in DOMAIN entries
                             /\ entries[k] = [size |-> Len(expect[k].body),
                                              type |-> expect[k].type]
           ELSE \E k \in Key : expect[k] = Unknown
    /\ call' = Ended(c)
    /\ UNCHANGED object

\* object_exists is one look.
Exists(c, k) ==
    /\ call[c] = NoCall
    /\ reply' = [to |-> c, exists |-> object[k] # Absent]
    /\ UNCHANGED <<object, call>>

\* The client dies, or its call fails: what it had begun stays as it is.
Abandon(c) ==
    /\ call[c] # NoCall
    /\ call' = Ended(c)
    /\ reply' = NoReply
    /\ UNCHANGED object

\* A step of a read that returns nothing yet.
Silent == reply' = NoReply /\ UNCHANGED <<call, object>>

Next ==
    \/ Silent
    \/ \E c \in Client :
          \/ Write(c) \/ EndWrite(c) \/ EndGet(c) \/ EndList(c) \/ Abandon(c)
          \/ \E k \in Key : BeginGet(c, k) \/ Exists(c, k)
          \/ BeginList(c)
          \/ \E k \in Key, new \in Content \cup {Absent} : BeginWrite(c, k, new)

Spec == Init /\ [][Next]_<<object, call, reply>>
=============================================================================
