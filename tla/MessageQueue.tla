---------------------------- MODULE MessageQueue ----------------------------
(***************************************************************************)
(* One stream of the message queue and the consumer group that reads it,   *)
(* as queue/redis_streams.py (XADD, XREADGROUP ">", XACK) and its double   *)
(* queue/memory.py implement protocols.MessageQueue.  Every stream of the  *)
(* system is read by one group.  A stream is a value of the modules that   *)
(* use it; this module holds no variables.                                 *)
(*                                                                         *)
(* entries is the append-only log; a message is named by its position.     *)
(* The group's cursor is the last position handed out and pending the      *)
(* positions handed out but not yet acknowledged.  The group starts at     *)
(* position 0 whenever it is created (id="0"), so the moment of            *)
(* ensure_group does not matter and a fresh stream already has its group.  *)
(***************************************************************************)
EXTENDS Naturals, Sequences

EmptyStream == [entries |-> <<>>, cursor |-> 0, pending |-> {}]

\* The streams whose payloads are in the set Payload.
StreamOf(Payload) ==
    [entries: Seq(Payload), cursor: Nat, pending: SUBSET Nat]

Publish(s, payload) == [s EXCEPT !.entries = Append(@, payload)]

\* There is something the group has not been given yet.
HasNew(s) == s.cursor < Len(s.entries)

\* The last position a call consume(count) hands out: as many new messages
\* as there are, up to count, and never one that is already pending.
LastDelivered(s, count) ==
    IF s.cursor + count <= Len(s.entries) THEN s.cursor + count
                                          ELSE Len(s.entries)

Consume(s, count) ==
    [s EXCEPT !.cursor  = LastDelivered(s, count),
              !.pending = @ \cup ((s.cursor + 1) .. LastDelivered(s, count))]

Ack(s, id) == [s EXCEPT !.pending = @ \ {id}]

\* Handed out, processed and confirmed.
Acked(s) == (1 .. s.cursor) \ s.pending
=============================================================================
