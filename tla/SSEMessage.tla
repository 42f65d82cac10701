------------------------------ MODULE SSEMessage ------------------------------
(***************************************************************************)
(* The event stream of one streamed message, as its client reads it        *)
(* (README.md:16, "SSE with correct lifecycle ordering"; the order the     *)
(* tests of internal/convert/stream_test.go assert): message_start, then   *)
(* content blocks one after the other, each with a start, deltas and a     *)
(* stop, then message_delta and message_stop.  Blocks are numbered from 0. *)
(* Pings may come at any time once the message has started.                *)
(*                                                                         *)
(* client is what the client knows after the events it has read.  An event *)
(* it does not expect is a fault; it reads on as well as it can.           *)
(***************************************************************************)
EXTENDS Naturals

CONSTANTS
    Calls,   \* the tool calls of the message, by the index upstream gives them
    Text,    \* the text, as opposed to a call
    Nobody   \* no call and no text

Owners == Calls \cup {Text}   \* what a block may hold

ASSUME CallsAssumption == Calls \subseteq Nat
ASSUME TextAssumption == Text \notin Calls
ASSUME NobodyAssumption == Nobody \notin Owners

VARIABLE client

Phases == {"none", "started", "ended", "stopped"}
Faults == { "lifecycle",   \* a message event out of its order
            "late",        \* a block event before the start or after the end
            "block" }      \* any other unexpected event

Clients ==
    [ phase : Phases,
      count : Nat,                    \* content blocks begun
      open : Owners \cup {Nobody},    \* whose block is open
      faults : SUBSET Faults ]

NewClient == [phase |-> "none", count |-> 0, open |-> Nobody, faults |-> {}]

MessageTypes == {"message_start", "ping", "message_delta", "message_stop"}
BlockTypes == {"start", "delta", "stop"}   \* content_block_...

\* A block event names the index of its block and whose content that is.
Message(type) == [type |-> type, index |-> 0, owner |-> Nobody]
Block(type, index, owner) == [type |-> type, index |-> index, owner |-> owner]

Events == {Message(type) : type \in MessageTypes}
          \cup {Block(type, i, o) : type \in BlockTypes, i \in 0..client.count, o \in Owners}

\* The event belongs to this part of the message.
InPhase(event) ==
    \/ event.type = "message_start" /\ client.phase = "none"
    \/ event.type = "ping" /\ client.phase # "none"
    \/ event.type = "message_stop" /\ client.phase = "ended"
    \/ event.type \in {"message_delta"} \cup BlockTypes /\ client.phase = "started"

\* The blocks come one after the other, and only content of the open one.
InSequence(event) ==
    /\ event.type \in {"message_delta", "start"} => client.open = Nobody
    /\ event.type = "start" => event.index = client.count
    /\ event.type \in {"delta", "stop"} =>
          client.open = event.owner /\ event.index + 1 = client.count

PhaseAfter(event) ==
    IF event.type = "message_start" THEN "started"
    ELSE IF event.type = "message_delta" THEN "ended"
    ELSE IF event.type = "message_stop" THEN "stopped"
    ELSE client.phase

OpenAfter(event) ==
    IF event.type = "start" THEN event.owner
    ELSE IF event.type = "stop" THEN Nobody
    ELSE client.open

Reads(event) ==
    [ phase |-> PhaseAfter(event),
      count |-> IF event.type = "start" THEN client.count + 1 ELSE client.count,
      open |-> OpenAfter(event),
      faults |-> client.faults ]

Fault(event) ==
    IF InPhase(event) THEN "block" ELSE IF event.type \in MessageTypes THEN "lifecycle" ELSE "late"

\* An event reaches the client.
Deliver(event) ==
    client' = IF InPhase(event) /\ InSequence(event)
                THEN Reads(event)
                ELSE [Reads(event) EXCEPT !.faults = @ \cup {Fault(event)}]

-----------------------------------------------------------------------------

MessageInit == client = NewClient

MessageNext ==
    \E event \in Events : InPhase(event) /\ InSequence(event) /\ client' = Reads(event)

MessageSpec == MessageInit /\ [][MessageNext]_client
===============================================================================
